---- MODULE Spec2Model ----
(***************************************************************************)
(* Network-map topology service: the live graph builder and its cache     *)
(* (zabbix_integration.py, state.py, workers.py, routes_core.py), and the *)
(* export pipeline (report_data.py, report_generator.py).                 *)
(*                                                                         *)
(* Conventions.  Python strings are TLA+ strings; "" is the empty string  *)
(* and also stands for an absent key / None where the code only tests     *)
(* truthiness.  A port is a natural number, 0 standing for an absent or   *)
(* empty port.  A dict is a function with a finite domain.  Python lists  *)
(* are sequences; Python sets are sets.                                    *)
(***************************************************************************)
EXTENDS Integers, Sequences, FiniteSets, TLC

VARIABLES
    \* ---- collaborators (Zabbix, NetBox) ----
    zbx_hosts,        \* host.get result: sequence of [host, interfaces]
    netbox_vms,       \* fetch_netbox_vms().values(): sequence of [display, ip4]
    zbx_history,      \* item id -> sequence of [clock, value] held by Zabbix
    now,              \* int(time.time())
    \* ---- state.py ----
    cached_map,       \* _cached_map
    last_updated,     \* _last_updated
    cached_map_lock,  \* holder of _cached_map_lock, "" when free
    name_to_vm,       \* _name_to_vm: VM name -> sequence of tag names
    \* ---- zabbix_worker / build_network_map locals ----
    zpc,              \* position of the Zabbix worker thread
    tt,               \* build_network_map: now at the start of the build
    ip2host, host2ip, \* result of get_ip_maps()
    vm_tags,          \* local name_to_vm of build_network_map
    items,            \* items of get_network_items() still to be processed
    edges_set, nodes, \* the sets under construction
    new_map,          \* the value build_network_map returned
    refreshes,        \* number of refresh attempts started so far
    \* ---- API readers (routes_core.api_network_map) ----
    rpc, rret,
    \* ---- report_worker / generate_all_reports ----
    epc,              \* position of the report worker thread
    runs,             \* export runs started so far
    cache_files,      \* CACHE_DIR: (itemid, chunk_start) -> cached chunk
    ip_map,           \* generate_all_reports: ip_map
    win,              \* parse_history_connections: (time_from, time_till)
    eitems,           \* parse_history_connections: items still to be parsed
    chunks,           \* get_connection_history: chunk starts still to be read
    all_entries,      \* get_connection_history: all_entries
    agg,              \* parse_history_connections: agg, in insertion order
    rows,             \* generate_all_reports: rows
    internal_rows, public_rows,
    artifacts,        \* files written to OUTPUT_DIR by the current run
    chunk_log,        \* observer: what happened to each chunk of the run
    export_error,     \* observer: what made the current run raise
    drawio,           \* suffix -> the diagram document written by the run
    gephi,            \* suffix -> the lines of the edge list written by the run
    \* ---- separate_overlaps(node_positions) ----
    lpc,              \* position inside separate_overlaps
    lnodes,           \* nodes = list(node_positions.keys())
    node_positions,   \* node -> (x, y), in units of 1 / PositionScale
    iteration,        \* passes of "for _ in range(max_iterations)" begun
    li, lj,           \* the pair of the pass that is processed next
    moved,            \* moved
    start_positions,  \* observer: node_positions at the call
    last_pair,        \* observer: the pair processed last, and whether it overlapped
    \* ---- history of the run (observers, not program state) ----
    snapshot,         \* _cached_map when the current refresh started
    returned,         \* maps build_network_map has returned
    installed,        \* maps installed by a completed set_cached_map
    failures          \* what went wrong in the current refresh

vars == << zbx_hosts, netbox_vms, zbx_history, now,
           cached_map, last_updated, cached_map_lock, name_to_vm,
           zpc, tt, ip2host, host2ip, vm_tags, items, edges_set, nodes, new_map,
           refreshes, rpc, rret, snapshot, returned, installed, failures,
           epc, runs, cache_files, ip_map, win, eitems, chunks, all_entries,
           agg, rows, internal_rows, public_rows, artifacts, chunk_log,
           export_error, drawio, gephi, lpc, lnodes, node_positions, iteration, li, lj,
           moved, start_positions, last_pair >>

layoutVars == << lpc, lnodes, node_positions, iteration, li, lj, moved,
                 start_positions, last_pair >>

envVars    == << zbx_hosts, netbox_vms, zbx_history, now, name_to_vm >>
buildVars  == << tt, ip2host, host2ip, vm_tags, items, edges_set, nodes, new_map >>
cacheVars  == << cached_map, last_updated, cached_map_lock >>
readerVars == << rpc, rret >>
exportVars == << epc, runs, cache_files, ip_map, win, eitems, chunks,
                all_entries, agg, rows, internal_rows, public_rows, artifacts,
                chunk_log, export_error, drawio, gephi >>
liveVars   == << cached_map, last_updated, cached_map_lock, zpc, tt, ip2host,
                host2ip, vm_tags, items, edges_set, nodes, new_map, refreshes,
                rpc, rret, snapshot, returned, installed, failures >>
localVars  == << ip2host, host2ip, vm_tags, items, edges_set, nodes >>

-----------------------------------------------------------------------------
(* Bounds of the model *)

MaxEntries == 1      \* history entries per item in a graph-builder input
MaxRefresh == 2      \* refresh attempts of the Zabbix worker
NumReaders == 1      \* concurrent API readers
MaxCollect == 1      \* entries Zabbix collects while the service runs
Epoch      == 10     \* time.time() when the service starts
LiveWindow == 2      \* the 24 h window of build_network_map, in model ticks
HISTORY_CHUNK == 2   \* report_config.HISTORY_CHUNK (one day), in model ticks
DAYS == 1            \* report_config.DAYS, the length of the export window
MaxRuns == 2         \* export runs of the report worker
MaxHistory == 2      \* history entries per item in an export input
MaxRows == 2         \* rows in a filter input
MaxFaults == 1       \* failing history calls and cache writes per export run
MaxIterations == 2   \* max_iterations of separate_overlaps
MantissaBits == 12   \* significant bits of a coordinate

\* the nodes of a layout input, in the order of the dict's keys
LayoutNames == << "a", "b", "c", "d" >>

-----------------------------------------------------------------------------
(* IP addresses: ipaddress.ip_address / ip_network membership *)

\* ipaddress.ip_address(s): the four octets, or <<>> when it raises ValueError.
IpOctets(s) ==
    CASE s = "10.0.0.1"    -> <<10, 0, 0, 1>>
      [] s = "10.0.0.5"    -> <<10, 0, 0, 5>>
      [] s = "192.168.1.9" -> <<192, 168, 1, 9>>
      [] s = "172.16.0.7"  -> <<172, 16, 0, 7>>
      [] s = "172.32.0.7"  -> <<172, 32, 0, 7>>
      [] s = "127.0.0.1"   -> <<127, 0, 0, 1>>
      [] s = "8.8.8.8"     -> <<8, 8, 8, 8>>
      [] OTHER             -> <<>>

IpValid(s) == IpOctets(s) # <<>>

\* The leading 24 bits of an address (TLC's integers are 32-bit signed; every
\* network of the configuration has a prefix of at most 24 bits).
IpHigh24(o) == (o[1] * 256 + o[2]) * 256 + o[3]

Net(a, b, c, d, prefix) == [base |-> <<a, b, c, d>>, prefix |-> prefix]

\* "ip_obj in net" for a parsed address: the leading prefix bits agree.
InNet(s, net) ==
    LET shift == 2 ^ (24 - net.prefix)
    IN  IpHigh24(IpOctets(s)) \div shift = IpHigh24(net.base) \div shift

PRIVATE_NETWORKS ==
    { Net(10, 0, 0, 0, 8), Net(192, 168, 0, 0, 16), Net(172, 16, 0, 0, 12) }

is_public_ip(ip) ==
    IF IpValid(ip) THEN ~ \E net \in PRIVATE_NETWORKS : InNet(ip, net)
    ELSE FALSE

-----------------------------------------------------------------------------
(* Dict helpers *)

EmptyDict == [k \in {} |-> ""]

\* d.get(k, default)
Get(d, k, default) == IF k \in DOMAIN d THEN d[k] ELSE default

\* d[k] = v
Put(d, k, v) == (k :> v) @@ d

\* d.setdefault(k, v)
SetDefault(d, k, v) == d @@ (k :> v)

-----------------------------------------------------------------------------
(* Telemetry payloads: the text json.loads is applied to *)

\* A connection descriptor; isdict = FALSE is a list element that is no dict.
Conn(lip, rip, lport, rport) ==
    [isdict |-> TRUE, localip |-> lip, remoteip |-> rip,
     localport |-> lport, remoteport |-> rport]

NonDictConn == [isdict |-> FALSE, localip |-> "", remoteip |-> "",
                localport |-> 0, remoteport |-> 0]

\* The value under "incomingconnections"/"outgoingconnections":
\*   "list" a JSON array, "dict" a single object, "num" a non-zero number,
\*   "str" a non-empty string.  An absent key, null, [] and "" all become [].
ConnList(cs)   == [shape |-> "list", conns |-> cs]
ConnOne(c)     == [shape |-> "dict", conns |-> << c >>]
ConnNum        == [shape |-> "num", conns |-> << >>]
ConnStr        == [shape |-> "str", conns |-> << >>]

\* A history value: "notjson" makes json.loads raise, "nondict" parses to a
\* JSON value that is no object, "dict" parses to an object.
Payload(inc, out) == [kind |-> "dict", inc |-> inc, out |-> out]
NotJson           == [kind |-> "notjson", inc |-> ConnList(<< >>), out |-> ConnList(<< >>)]
NonDictJson       == [kind |-> "nondict", inc |-> ConnList(<< >>), out |-> ConnList(<< >>)]

Entry(clock, value) == [clock |-> clock, value |-> value]

-----------------------------------------------------------------------------
(* zabbix_integration.py: get_ip_maps *)

Range(seq) == { seq[i] : i \in 1..Len(seq) }

ZabbixItems ==
    << [itemid |-> "i1", host |-> "web1"], [itemid |-> "i2", host |-> "db1"] >>

ItemIds == { ZabbixItems[i].itemid : i \in 1..Len(ZabbixItems) }

Maps(i2h, h2i) == [ip2host |-> i2h, host2ip |-> h2i]

\* for iface in h.get("interfaces", []): ip2host[ip] = name; host2ip.setdefault(name, ip)
RECURSIVE AddInterfaces(_, _, _, _)
AddInterfaces(name, ifaces, i, m) ==
    IF i > Len(ifaces) THEN m
    ELSE LET ip == ifaces[i]
         IN  IF ip # ""
             THEN AddInterfaces(name, ifaces, i + 1,
                      Maps(Put(m.ip2host, ip, name), SetDefault(m.host2ip, name, ip)))
             ELSE AddInterfaces(name, ifaces, i + 1, m)

\* for h in hosts: ...
RECURSIVE AddHosts(_, _, _)
AddHosts(hosts, i, m) ==
    IF i > Len(hosts) THEN m
    ELSE AddHosts(hosts, i + 1, AddInterfaces(hosts[i].host, hosts[i].interfaces, 1, m))

\* for vm in fetch_netbox_vms().values(): ip2host[ip4] = display; host2ip.setdefault(display, ip4)
RECURSIVE AddNetboxVms(_, _, _)
AddNetboxVms(vms, i, m) ==
    IF i > Len(vms) THEN m
    ELSE LET vm == vms[i]
         IN  IF vm.ip4 # ""
             THEN AddNetboxVms(vms, i + 1,
                      Maps(Put(m.ip2host, vm.ip4, vm.display),
                           SetDefault(m.host2ip, vm.display, vm.ip4)))
             ELSE AddNetboxVms(vms, i + 1, m)

\* get_ip_maps() when host.get answers; netboxOk = FALSE is fetch_netbox_vms()
\* raising, which the try/except around the NetBox loop swallows.
get_ip_maps(hosts, vms, netboxOk) ==
    LET m == AddHosts(hosts, 1, Maps(EmptyDict, EmptyDict))
    IN  IF netboxOk THEN AddNetboxVms(vms, 1, m) ELSE m

\* history.get with time_from/time_till: both bounds are inclusive.
get_history(history, time_from, time_till) ==
    SelectSeq(history, LAMBDA e : e.clock >= time_from /\ e.clock <= time_till)

-----------------------------------------------------------------------------
(* zabbix_integration.py: build_network_map, the loop over one item's history *)

\* isinstance(conn_list, dict) -> [conn_list]; not a list -> continue
LiveConns(cl) == IF cl.shape \in {"list", "dict"} THEN Range(cl.conns) ELSE {}

\* the descriptors that reach nodes.add / edges_set.add
LiveKept(cl) ==
    { c \in LiveConns(cl) : c.isdict /\ c.localip # "" /\ c.remoteip # "" }

\* port = c.get("localport") or c.get("remoteport") or ""
LivePort(c) == IF c.localport # 0 THEN c.localport ELSE c.remoteport

LiveSrc(c, direction, i2h) ==
    IF direction = "in" THEN Get(i2h, c.remoteip, c.remoteip)
    ELSE Get(i2h, c.localip, c.localip)

LiveDst(c, direction, i2h) ==
    IF direction = "in" THEN Get(i2h, c.localip, c.localip)
    ELSE Get(i2h, c.remoteip, c.remoteip)

\* edges_set.add((src, dst, port, is_pub))
LiveEdge(c, direction, i2h) ==
    << LiveSrc(c, direction, i2h), LiveDst(c, direction, i2h), LivePort(c),
       is_public_ip(c.remoteip) >>

\* json.loads raising, or a value that is no dict: continue
LiveParsed(value) == value.kind = "dict"

\* what one history entry adds to edges_set
EntryEdges(value, i2h) ==
    IF ~ LiveParsed(value) THEN {}
    ELSE { LiveEdge(c, "in", i2h) : c \in LiveKept(value.inc) }
         \cup { LiveEdge(c, "out", i2h) : c \in LiveKept(value.out) }

\* EntryNodes without nodes.add(dst)
EntryNodesSrcOnly(value, i2h) ==
    IF ~ LiveParsed(value) THEN {}
    ELSE { LiveSrc(c, "in", i2h) : c \in LiveKept(value.inc) }
         \cup { LiveSrc(c, "out", i2h) : c \in LiveKept(value.out) }

\* what one history entry adds to nodes: nodes.add(src); nodes.add(dst)
EntryNodes(value, i2h) ==
    IF ~ LiveParsed(value) THEN {}
    ELSE { LiveSrc(c, "in", i2h) : c \in LiveKept(value.inc) }
         \cup { LiveDst(c, "in", i2h) : c \in LiveKept(value.inc) }
         \cup { LiveSrc(c, "out", i2h) : c \in LiveKept(value.out) }
         \cup { LiveDst(c, "out", i2h) : c \in LiveKept(value.out) }

HistoryEdges(history, i2h) ==
    UNION { EntryEdges(history[k].value, i2h) : k \in 1..Len(history) }

HistoryNodes(history, i2h) ==
    UNION { EntryNodes(history[k].value, i2h) : k \in 1..Len(history) }

-----------------------------------------------------------------------------
(* helpers.py: classify_env; config.py: ENV_COLOR_MAP *)

\* The keywords of classify_env that occur in name.lower(), for the tag names
\* of the model ("k in val" is a substring test).
KeywordsIn(name) ==
    CASE name = "Production" -> {"prod", "production"}
      [] name = "dev-team"   -> {"dev"}
      [] name = "TST"        -> {"tst"}
      [] name = "pre-prod"   -> {"prod", "pre-prod"}
      [] name = "QA"         -> {"qa"}
      [] OTHER               -> {}

\* classify_env applied to one string
classify_str(name) ==
    LET val == KeywordsIn(name)
    IN  IF name = "" THEN "unknown"
        ELSE IF val \cap {"prod", "prd", "produktion", "production"} # {} THEN "prod"
        ELSE IF val \cap {"dev", "developer"} # {} THEN "dev"
        ELSE IF val \cap {"test", "tst"} # {} THEN "test"
        ELSE IF val \cap {"qa", "quality", "pre-prod", "preproduction", "pre production"} # {}
             THEN "qa"
        ELSE "unknown"

\* classify_env applied to a list of tag names: the first item that classifies
RECURSIVE classify_list(_, _)
classify_list(names, i) ==
    IF i > Len(names) THEN "unknown"
    ELSE IF classify_str(names[i]) # "unknown" THEN classify_str(names[i])
    ELSE classify_list(names, i + 1)

classify_env(names) == classify_list(names, 1)

ENV_COLOR_MAP ==
    [prod |-> "#007bff", dev |-> "#28a745", test |-> "#fd7e14", qa |-> "#6f42c1",
     unknown |-> "#6c757d", external |-> "#ff3366"]
    @@ ("internal-unknown" :> "#999999")

-----------------------------------------------------------------------------
(* zabbix_integration.py: build_network_map, from "# Degrees" to the return *)

\* DegreeLoop counting an edge once per distinct endpoint
RECURSIVE DegreeLoopOncePerEdge(_, _)
DegreeLoopOncePerEdge(edges, degree) ==
    IF edges = {} THEN degree
    ELSE LET e  == CHOOSE x \in edges : TRUE
             d1 == Put(degree, e[1], Get(degree, e[1], 0) + 1)
             d2 == IF e[2] = e[1] THEN d1 ELSE Put(d1, e[2], Get(d1, e[2], 0) + 1)
         IN  DegreeLoopOncePerEdge(edges \ {e}, d2)

\* for s, d, _, _ in edges_set: degree[s] += 1; degree[d] += 1
RECURSIVE DegreeLoop(_, _)
DegreeLoop(edges, degree) ==
    IF edges = {} THEN degree
    ELSE LET e  == CHOOSE x \in edges : TRUE
             d1 == Put(degree, e[1], Get(degree, e[1], 0) + 1)
             d2 == Put(d1, e[2], Get(d1, e[2], 0) + 1)
         IN  DegreeLoop(edges \ {e}, d2)

Degrees(ns, edges) == DegreeLoop(edges, [n \in ns |-> 0])

\* tag_names = [x for x in tag_names if x]
TagNames(tags) == SelectSeq(tags, LAMBDA t : t # "")

NodeColor(ip, env) ==
    IF is_public_ip(ip) THEN ENV_COLOR_MAP["external"]
    ELSE Get(ENV_COLOR_MAP, env, ENV_COLOR_MAP["internal-unknown"])

\* one element of node_data; the label f"{n} ({ip})" is the pair << n, ip >>
NodeData(n, degree, h2i, tagsOf) ==
    LET ip  == Get(h2i, n, "")
        env == classify_env(TagNames(Get(tagsOf, n, << >>)))
    IN  [id     |-> n,
         label  |-> IF ip # "" THEN << n, ip >> ELSE << n >>,
         degree |-> Get(degree, n, 0),
         ip     |-> ip,
         color  |-> NodeColor(ip, env)]

\* one element of edge_data; label 0 is the empty label, p > 0 is "port p"
EdgeData(e, h2i) ==
    [source   |-> e[1],
     target   |-> e[2],
     label    |-> e[3],
     isPublic |-> e[4],
     srcIp    |-> Get(h2i, e[1], ""),
     dstIp    |-> Get(h2i, e[2], "")]

\* {"nodes": node_data, "edges": edge_data}; the lists are built by iterating
\* Python sets, so their order is unspecified and they hold no duplicates.
MakeMap(ns, edges, h2i, tagsOf) ==
    LET degree == Degrees(ns, edges)
    IN  [nodes |-> { NodeData(n, degree, h2i, tagsOf) : n \in ns },
         edges |-> { EdgeData(e, h2i) : e \in edges }]

\* state.py: _cached_map = {"nodes": [], "edges": []}
InitialMap == [nodes |-> {}, edges |-> {}]

-----------------------------------------------------------------------------
(* workers.py: zabbix_worker, with build_network_map and set_cached_map     *)
(* inlined step by step.  Every call of a collaborator is one step; a call *)
(* that raises takes the worker to "failed", the except clause of the      *)
(* worker.  The locals of build_network_map exist while it runs: they are  *)
(* back at their initial values once it has returned or raised.            *)

observers == << snapshot, returned, installed, failures >>

NoLocals ==
    /\ tt' = 0
    /\ ip2host' = EmptyDict
    /\ host2ip' = EmptyDict
    /\ vm_tags' = EmptyDict
    /\ items' = << >>
    /\ edges_set' = {}
    /\ nodes' = {}

\* an exception leaves build_network_map
Raise(what) ==
    /\ failures' = failures \cup {what}
    /\ zpc' = "failed"
    /\ NoLocals
    /\ UNCHANGED << layoutVars, exportVars, envVars, cacheVars, readerVars, new_map, refreshes,
                    snapshot, returned, installed >>

\* a refresh that takes _cached_map_lock before it builds
BuildStartLocked ==
    /\ zpc = "start"
    /\ refreshes < MaxRefresh
    /\ cached_map_lock = ""
    /\ cached_map_lock' = "zabbix"
    /\ refreshes' = refreshes + 1
    /\ tt' = now
    /\ failures' = {}
    /\ snapshot' = cached_map
    /\ zpc' = "get_ip_maps"
    /\ UNCHANGED << layoutVars, exportVars, envVars, cached_map, last_updated, readerVars,
                    localVars, new_map, returned, installed >>

\* build_network_map(): now = int(time.time()); tf = now - 24 * 3600; tt = now
BuildStart ==
    /\ zpc = "start"
    /\ refreshes < MaxRefresh
    /\ refreshes' = refreshes + 1
    /\ tt' = now
    /\ failures' = {}
    /\ snapshot' = cached_map
    /\ zpc' = "get_ip_maps"
    /\ UNCHANGED << layoutVars, exportVars, envVars, cacheVars, readerVars, localVars, new_map,
                    returned, installed >>

\* ip2host, host2ip = get_ip_maps()
GetIpMaps ==
    /\ zpc = "get_ip_maps"
    /\ \E netboxOk \in BOOLEAN :
         LET m == get_ip_maps(zbx_hosts, netbox_vms, netboxOk)
         IN  /\ ip2host' = m.ip2host
             /\ host2ip' = m.host2ip
    /\ zpc' = "get_name_to_vm"
    /\ UNCHANGED << layoutVars, exportVars, envVars, cacheVars, readerVars, tt, vm_tags, items,
                    edges_set, nodes, new_map, refreshes, observers >>

\* host.get raises inside get_ip_maps(): nothing in build_network_map catches it
GetIpMapsFails ==
    /\ zpc = "get_ip_maps"
    /\ Raise("inventory")

\* name_to_vm = get_name_to_vm(); edges_set = set(); nodes = set()
GetNameToVm ==
    /\ zpc = "get_name_to_vm"
    /\ vm_tags' = name_to_vm
    /\ edges_set' = {}
    /\ nodes' = {}
    /\ zpc' = "get_network_items"
    /\ UNCHANGED << layoutVars, exportVars, envVars, cacheVars, readerVars, tt, ip2host, host2ip,
                    items, new_map, refreshes, observers >>

\* for itm in get_network_items():
GetNetworkItems ==
    /\ zpc = "get_network_items"
    /\ items' = ZabbixItems
    /\ zpc' = "loop"
    /\ UNCHANGED << layoutVars, exportVars, envVars, cacheVars, readerVars, tt, ip2host, host2ip,
                    vm_tags, edges_set, nodes, new_map, refreshes, observers >>

\* item.get raises
GetNetworkItemsFails ==
    /\ zpc = "get_network_items"
    /\ Raise("items")

\* one iteration of the item loop: history = get_history(itemid, tf, tt) and
\* the loop over its entries
ProcessItem ==
    /\ zpc = "loop"
    /\ items # << >>
    /\ LET history == get_history(zbx_history[Head(items).itemid],
                                  tt - LiveWindow, tt)
       IN  /\ edges_set' = edges_set \cup HistoryEdges(history, ip2host)
           /\ nodes' = nodes \cup HistoryNodes(history, ip2host)
    /\ items' = Tail(items)
    /\ UNCHANGED << layoutVars, exportVars, envVars, cacheVars, readerVars, zpc, tt, ip2host, host2ip,
                    vm_tags, new_map, refreshes, observers >>

\* get_history(itemid, tf, tt) raises: the call is in no try block, so the
\* exception leaves build_network_map
GetHistoryFails ==
    /\ zpc = "loop"
    /\ items # << >>
    /\ Raise("history")

\* the loop is over: degrees, node_data, edge_data, return
BuildReturn ==
    /\ zpc = "loop"
    /\ items = << >>
    /\ new_map' = MakeMap(nodes, edges_set, host2ip, vm_tags)
    /\ returned' = returned \cup {new_map'}
    /\ zpc' = "set_cached_map"
    /\ NoLocals
    /\ UNCHANGED << layoutVars, exportVars, envVars, cacheVars, readerVars, refreshes, snapshot,
                    installed, failures >>

\* set_cached_map entered without taking _cached_map_lock
SetAcquireNoLock ==
    /\ zpc = "set_cached_map"
    /\ zpc' = "set_map"
    /\ UNCHANGED << layoutVars, exportVars, envVars, cacheVars, readerVars, buildVars, refreshes,
                    observers >>

\* set_cached_map(new_map): "with _cached_map_lock:" is entered
SetAcquire ==
    /\ zpc = "set_cached_map"
    /\ cached_map_lock = ""
    /\ cached_map_lock' = "zabbix"
    /\ zpc' = "set_map"
    /\ UNCHANGED << layoutVars, exportVars, envVars, cached_map, last_updated, readerVars, buildVars,
                    refreshes, observers >>

\* _cached_map = new_map
SetMap ==
    /\ zpc = "set_map"
    /\ cached_map' = new_map
    /\ zpc' = "set_time"
    /\ UNCHANGED << layoutVars, exportVars, envVars, last_updated, cached_map_lock, readerVars,
                    buildVars, refreshes, observers >>

\* the with block is left with _last_updated as it was
SetTimeKeepsStamp ==
    /\ zpc = "set_time"
    /\ cached_map_lock' = ""
    /\ installed' = installed \cup {cached_map}
    /\ zpc' = "sleep"
    /\ UNCHANGED << layoutVars, exportVars, envVars, cached_map, last_updated, readerVars,
                    buildVars, refreshes, snapshot, returned, failures >>

\* _last_updated = int(time.time()); the with block is left and the lock freed
SetTime ==
    /\ zpc = "set_time"
    /\ last_updated' = now
    /\ cached_map_lock' = ""
    /\ installed' = installed \cup {cached_map}
    /\ zpc' = "sleep"
    /\ UNCHANGED << layoutVars, exportVars, envVars, cached_map, readerVars, buildVars, refreshes,
                    snapshot, returned, failures >>

\* an except clause that also empties the cache
RefreshFailedClears ==
    /\ zpc = "failed"
    /\ zpc' = "sleep"
    /\ cached_map' = InitialMap
    /\ UNCHANGED << layoutVars, exportVars, envVars, last_updated, cached_map_lock, readerVars,
                    buildVars, refreshes, observers >>

\* except Exception as e: logger.exception(...)
RefreshFailed ==
    /\ zpc = "failed"
    /\ zpc' = "sleep"
    /\ UNCHANGED << layoutVars, exportVars, envVars, cacheVars, readerVars, buildVars, refreshes,
                    observers >>

\* a worker that returns after its sleep instead of looping
SleepReturns ==
    /\ zpc = "sleep"
    /\ refreshes < MaxRefresh
    /\ now' = now + 1
    /\ zpc' = "returned"
    /\ UNCHANGED << layoutVars, exportVars, zbx_hosts, netbox_vms, zbx_history, name_to_vm, cacheVars,
                    readerVars, buildVars, refreshes, observers >>

\* time.sleep(ZABBIX_REFRESH_SECONDS): one tick of the model's clock
Sleep ==
    /\ zpc = "sleep"
    /\ refreshes < MaxRefresh
    /\ now' = now + 1
    /\ zpc' = "start"
    /\ UNCHANGED << layoutVars, exportVars, zbx_hosts, netbox_vms, zbx_history, name_to_vm, cacheVars,
                    readerVars, buildVars, refreshes, observers >>

-----
(* routes_core.py: api_network_map -> state.get_cached_map *)

Readers == 1..NumReaders

ReaderName(r) == IF r = 1 THEN "reader1" ELSE IF r = 2 THEN "reader2" ELSE "reader3"

\* get_cached_map(): "with _cached_map_lock:" is entered
GetAcquire(r) ==
    /\ rpc[r] = "idle"
    /\ cached_map_lock = ""
    /\ cached_map_lock' = ReaderName(r)
    /\ rpc' = [rpc EXCEPT ![r] = "locked"]
    /\ UNCHANGED << layoutVars, exportVars, envVars, cached_map, last_updated, rret, zpc, buildVars,
                    refreshes, observers >>

\* return _cached_map, which frees the lock
GetReturn(r) ==
    /\ rpc[r] = "locked"
    /\ rret' = [rret EXCEPT ![r] = cached_map]
    /\ cached_map_lock' = ""
    /\ rpc' = [rpc EXCEPT ![r] = "returned"]
    /\ UNCHANGED << layoutVars, exportVars, envVars, cached_map, last_updated, zpc, buildVars,
                    refreshes, observers >>

\* the response has been sent; the reader may query again
ReaderDone(r) ==
    /\ rpc[r] = "returned"
    /\ rpc' = [rpc EXCEPT ![r] = "idle"]
    /\ rret' = [rret EXCEPT ![r] = InitialMap]
    /\ UNCHANGED << layoutVars, exportVars, envVars, cacheVars, zpc, buildVars, refreshes,
                    observers >>

-----------------------------------------------------------------------------
(* The collaborators' data *)

Web1Ip == "10.0.0.1"
Db1Ip  == "10.0.0.5"

Host(name, ifaces) == [host |-> name, interfaces |-> ifaces]

Inventory == << Host("web1", << Web1Ip >>), Host("db1", << Db1Ip >>) >>

NetboxVms == << [display |-> "db1.vm", ip4 |-> Db1Ip] >>

\* web1 -> 10.0.0.5:443, seen from web1
OutDb      == Conn(Web1Ip, Db1Ip, 0, 443)
\* the same with the ephemeral local port reported too
OutDbEph   == Conn(Web1Ip, Db1Ip, 51234, 443)
\* web1 -> db1:5432, seen from db1
InFromWeb  == Conn(Db1Ip, Web1Ip, 5432, 40000)
\* web1 talking to itself
SelfConn   == Conn(Web1Ip, Web1Ip, 0, 80)
\* web1 -> 8.8.8.8:53
OutPublic  == Conn(Web1Ip, "8.8.8.8", 0, 53)
\* a descriptor without remoteip
NoRemote   == Conn(Web1Ip, "", 0, 80)

BuildPayloads ==
    { NotJson,
      NonDictJson,
      Payload(ConnList(<< >>), ConnList(<< OutDb, OutPublic >>)),
      Payload(ConnOne(InFromWeb), ConnList(<< OutDbEph, NonDictConn >>)),
      Payload(ConnNum, ConnList(<< SelfConn, NoRemote >>)),
      Payload(ConnList(<< InFromWeb >>), ConnOne(SelfConn)) }

\* sequences over S of length at most n
SeqsUpTo(S, n) == UNION { [1..k -> S] : k \in 0..n }

\* the tags of the VMs NetBox holds
NetboxTags == ("web1" :> << "", "Production" >>) @@ ("db1" :> << "linux" >>)

TagChoices == { EmptyDict, NetboxTags }

-----------------------------------------------------------------------------
(* report_builders.py: separate_overlaps, one step per pair of a pass.      *)
(* Coordinates are binary floating-point numbers in the program (53         *)
(* significant bits); here they are floating-point numbers of MantissaBits  *)
(* significant bits, rounded to nearest, ties to even, after every          *)
(* operation.  A coordinate x is stored as the integer x * PositionScale.   *)
(* The differences 200 - |dx| and 120 - |dy| of an overlapping pair are at  *)
(* least 32, so that after rounding their halves are multiples of           *)
(* 2 ^ (5 - MantissaBits), and so is every coordinate computed from inputs  *)
(* that are.                                                                *)

node_width == 160
node_height == 80
padding == 40

\* the pairs of one pass over the nodes of the inputs
MaxPairs == (Len(LayoutNames) * (Len(LayoutNames) - 1)) \div 2

PositionScale == 2 ^ (MantissaBits - 5)

Scaled(v) == v * PositionScale

Abs(v) == IF v < 0 THEN 0 - v ELSE v

\* the distance between neighbouring floating-point numbers at magnitude a:
\* 1 below 2 ^ MantissaBits, doubled with every further bit
RECURSIVE Spacing(_)
Spacing(a) == IF a < 2 ^ MantissaBits THEN 1 ELSE 2 * Spacing(a \div 2)

\* the floating-point number nearest to x, the one with the even mantissa
\* when x is halfway between two
Nearest(x) ==
    LET a  == Abs(x)
        q  == Spacing(a)
        r  == a % q
        lo == a - r
        up == IF 2 * r > q \/ (2 * r = q /\ (lo \div q) % 2 = 1) THEN lo + q ELSE lo
    IN  IF x < 0 THEN 0 - up ELSE up

\* the result of an arithmetic operation whose exact value is v (v is
\* evaluated once)
Fl(v) == CHOOSE w \in { Nearest(x) : x \in {v} } : TRUE

\* a box that reaches a padding beyond the node on the right and below
BoxWithMargin(pos) ==
    << pos[1], pos[1] + Scaled(node_width + 2 * padding),
       pos[2], pos[2] + Scaled(node_height + 2 * padding) >>

\* box = [x, x + node_width, y, y + node_height]
Box(pos) ==
    << pos[1], Fl(pos[1] + Scaled(node_width)),
       pos[2], Fl(pos[2] + Scaled(node_height)) >>

\* boxes that only touch are not taken as overlapping
overlapInterior(a, b) ==
    ~ (a[2] <= b[1] \/ a[1] >= b[2] \/ a[4] <= b[3] \/ a[3] >= b[4])

\* not (a[1] < b[0] or a[0] > b[1] or a[3] < b[2] or a[2] > b[3])
overlap(a, b) == ~ (a[2] < b[1] \/ a[1] > b[2] \/ a[4] < b[3] \/ a[3] > b[4])

\* dx, dy = x2 - x1, y2 - y1; if dx == 0 and dy == 0: dx = 1
PairDx(p1, p2) ==
    IF p2[1] = p1[1] /\ p2[2] = p1[2] THEN Scaled(1) ELSE Fl(p2[1] - p1[1])

PairDy(p1, p2) == Fl(p2[2] - p1[2])

\* a push by a quarter of o on each side
PushQuarter(d, footprint) ==
    IF Abs(d) < footprint
    THEN (Fl(footprint - Abs(d)) \div 4) * (IF d > 0 THEN 1 ELSE -1)
    ELSE 0

\* o / 2 * (1 if d > 0 else -1) if abs(d) < footprint else 0, with
\* o = footprint - abs(d)
Push(d, footprint) ==
    IF Abs(d) < footprint
    THEN (Fl(footprint - Abs(d)) \div 2) * (IF d > 0 THEN 1 ELSE -1)
    ELSE 0

PushX(p1, p2) == Push(PairDx(p1, p2), Scaled(node_width + padding))
PushY(p1, p2) == Push(PairDy(p1, p2), Scaled(node_height + padding))

\* Pushed with the new coordinates never stored in node_positions
PushedNotStored(positions, n1, n2) == positions

\* the positions after the pair (n1, n2) was pushed apart
Pushed(positions, n1, n2) ==
    LET p1 == positions[n1]
        p2 == positions[n2]
        px == PushX(p1, p2)
        py == PushY(p1, p2)
    IN  [positions EXCEPT ![n1] = << Fl(p1[1] - px), Fl(p1[2] - py) >>,
                          ![n2] = << Fl(p2[1] + px), Fl(p2[2] + py) >>]

\* range(i + 1, len(nodes)) is exhausted: the next i, or the end of the pass
NextPair ==
    IF lj < Len(lnodes) THEN /\ li' = li /\ lj' = lj + 1
    ELSE /\ li' = li + 1 /\ lj' = li + 2

PairsLeft == lpc = "pass" /\ li < Len(lnodes)

PassOver == lpc = "pass" /\ li >= Len(lnodes)

\* if overlap(box1, box2): moved = True; ...; node_positions[n1] = ...
PairOverlaps ==
    /\ PairsLeft
    /\ overlap(Box(node_positions[lnodes[li]]), Box(node_positions[lnodes[lj]]))
    /\ moved' = TRUE
    /\ node_positions' = Pushed(node_positions, lnodes[li], lnodes[lj])
    /\ last_pair' = << li, lj, TRUE >>
    /\ NextPair
    /\ UNCHANGED << envVars, liveVars, exportVars, lpc, lnodes, iteration,
                    start_positions >>

\* the boxes of the pair do not overlap: nothing is done
PairApart ==
    /\ PairsLeft
    /\ ~ overlap(Box(node_positions[lnodes[li]]), Box(node_positions[lnodes[lj]]))
    /\ last_pair' = << li, lj, FALSE >>
    /\ NextPair
    /\ UNCHANGED << envVars, liveVars, exportVars, lpc, lnodes, node_positions,
                    iteration, moved, start_positions >>

\* a pass without a move that is followed by another pass
PassBreakIgnored ==
    /\ PassOver
    /\ ~ moved
    /\ iteration < MaxIterations
    /\ iteration' = iteration + 1
    /\ li' = 1
    /\ lj' = 2
    /\ UNCHANGED << envVars, liveVars, exportVars, lpc, lnodes, node_positions,
                    moved, start_positions, last_pair >>

\* if not moved: break
PassBreak ==
    /\ PassOver
    /\ ~ moved
    /\ lpc' = "returned"
    /\ UNCHANGED << envVars, liveVars, exportVars, lnodes, node_positions,
                    iteration, li, lj, moved, start_positions, last_pair >>

\* the next pass of "for _ in range(max_iterations)": moved = False
PassNext ==
    /\ PassOver
    /\ moved
    /\ iteration < MaxIterations
    /\ iteration' = iteration + 1
    /\ moved' = FALSE
    /\ li' = 1
    /\ lj' = 2
    /\ UNCHANGED << envVars, liveVars, exportVars, lpc, lnodes, node_positions,
                    start_positions, last_pair >>

\* range(max_iterations) is exhausted
PassesExhausted ==
    /\ PassOver
    /\ moved
    /\ iteration = MaxIterations
    /\ lpc' = "returned"
    /\ UNCHANGED << envVars, liveVars, exportVars, lnodes, node_positions,
                    iteration, li, lj, moved, start_positions, last_pair >>

\* separate_overlaps is not running
InitLayoutIdle ==
    /\ lpc = "idle"
    /\ lnodes = << >>
    /\ node_positions = EmptyDict
    /\ iteration = 0
    /\ li = 1
    /\ lj = 2
    /\ moved = FALSE
    /\ start_positions = EmptyDict
    /\ last_pair = << >>

-----------------------------------------------------------------------------
(* SpecBuild: one run of build_network_map on every input of the bounds *)

InitWorker ==
    /\ zpc = "start"
    /\ tt = 0
    /\ ip2host = EmptyDict
    /\ host2ip = EmptyDict
    /\ vm_tags = EmptyDict
    /\ items = << >>
    /\ edges_set = {}
    /\ nodes = {}
    /\ new_map = InitialMap
    /\ refreshes = 0
    /\ snapshot = InitialMap
    /\ returned = {}
    /\ installed = {}
    /\ failures = {}

\* the report worker has not started
InitExportFrame ==
    /\ epc = "start"
    /\ runs = 0
    /\ ip_map = EmptyDict
    /\ win = [from |-> 0, till |-> 0]
    /\ eitems = << >>
    /\ chunks = << >>
    /\ all_entries = << >>
    /\ agg = << >>
    /\ rows = << >>
    /\ internal_rows = << >>
    /\ public_rows = << >>
    /\ artifacts = {}
    /\ chunk_log = EmptyDict
    /\ export_error = ""
    /\ drawio = EmptyDict
    /\ gephi = EmptyDict
    /\ InitLayoutIdle

\* ... and CACHE_DIR is empty
InitExportIdle ==
    /\ InitExportFrame
    /\ cache_files = EmptyDict

InitState ==
    /\ cached_map = InitialMap
    /\ last_updated = 0
    /\ cached_map_lock = ""
    /\ rpc = [r \in Readers |-> "idle"]
    /\ rret = [r \in Readers |-> InitialMap]

InitBuild ==
    /\ zbx_hosts \in { << >>, Inventory }
    /\ netbox_vms = NetboxVms
    /\ now = Epoch
    /\ zbx_history \in
         [ItemIds -> SeqsUpTo({ Entry(Epoch, p) : p \in BuildPayloads }
                              \cup { Entry(Epoch - LiveWindow - 1,
                                           Payload(ConnList(<< >>), ConnOne(OutPublic))) },
                              MaxEntries)]
    /\ name_to_vm \in TagChoices
    /\ InitState
    /\ InitWorker
    /\ InitExportIdle

NextBuild ==
    \/ BuildStart
    \/ GetIpMaps
    \/ GetIpMapsFails
    \/ GetNameToVm
    \/ GetNetworkItems
    \/ GetNetworkItemsFails
    \/ ProcessItem
    \/ GetHistoryFails
    \/ BuildReturn

SpecBuild == InitBuild /\ [][NextBuild]_vars

-----------------------------------------------------------------------------
(* SpecCache: the Zabbix worker refreshing the cache while readers query it *)
(* and Zabbix keeps collecting telemetry                                    *)

CachePayloads ==
    { Payload(ConnList(<< >>), ConnList(<< OutDb >>)),
      Payload(ConnOne(InFromWeb), ConnList(<< OutPublic >>)) }

Collected == Len(zbx_history["i1"]) + Len(zbx_history["i2"])

\* Zabbix stores a new value of a connection item
ZabbixCollects(i, p) ==
    /\ Collected < MaxCollect
    /\ zbx_history' = [zbx_history EXCEPT ![i] = Append(@, Entry(now, p))]
    /\ UNCHANGED << layoutVars, exportVars, zbx_hosts, netbox_vms, now, name_to_vm, cacheVars,
                    readerVars, zpc, buildVars, refreshes, observers >>

InitCache ==
    /\ zbx_hosts = Inventory
    /\ netbox_vms = NetboxVms
    /\ now = Epoch
    /\ zbx_history = [i \in ItemIds |-> << >>]
    /\ name_to_vm = EmptyDict
    /\ InitState
    /\ InitWorker
    /\ InitExportIdle

Refresh ==
    \/ BuildStart
    \/ GetIpMaps
    \/ GetIpMapsFails
    \/ GetNameToVm
    \/ GetNetworkItems
    \/ GetNetworkItemsFails
    \/ ProcessItem
    \/ GetHistoryFails
    \/ BuildReturn
    \/ SetAcquire
    \/ SetMap
    \/ SetTime
    \/ RefreshFailed
    \/ Sleep

\* netbox_worker: vms = fetch_netbox_vms(); services = fetch_netbox_services();
\* set_netbox_data(vms, services) rebuilds _name_to_vm.  An update that fails
\* or that loads what is loaded already changes nothing.
NetboxWorker ==
    /\ name_to_vm # NetboxTags
    /\ name_to_vm' = NetboxTags
    /\ UNCHANGED << layoutVars, exportVars, zbx_hosts, netbox_vms, zbx_history, now,
                    liveVars >>

NextCache ==
    \/ Refresh
    \/ \E r \in Readers : GetAcquire(r) \/ GetReturn(r) \/ ReaderDone(r)
    \/ \E i \in ItemIds, p \in CachePayloads : ZabbixCollects(i, p)

SpecCache == InitCache /\ [][NextCache]_vars

-----------------------------------------------------------------------------
(* SpecWorker: the zabbix_worker loop and one reader, with the scheduling   *)
(* of the threads.  The worker thread is a daemon thread that keeps         *)
(* running: each of its steps is taken once it can be (a sleep ends, a call *)
(* returns or raises).  A reader inside get_cached_map returns and frees    *)
(* the lock.  The lock is free again and again while the reader comes and   *)
(* goes, and the worker blocked in "with _cached_map_lock" gets it at one   *)
(* of these times.                                                          *)

WorkerStep ==
    \/ BuildStart
    \/ GetIpMaps
    \/ GetIpMapsFails
    \/ GetNameToVm
    \/ GetNetworkItems
    \/ GetNetworkItemsFails
    \/ ProcessItem
    \/ GetHistoryFails
    \/ BuildReturn
    \/ SetMap
    \/ SetTime
    \/ RefreshFailed
    \/ Sleep

InitWorkerLoop ==
    /\ zbx_hosts = Inventory
    /\ netbox_vms = NetboxVms
    /\ now = Epoch
    /\ zbx_history \in
         { ("i1" :> h) @@ ("i2" :> << >>) :
             h \in SeqsUpTo({ Entry(Epoch, p) : p \in CachePayloads }, 1) }
    /\ name_to_vm = EmptyDict
    /\ InitState
    /\ InitWorker
    /\ InitExportIdle

NextWorker ==
    \/ WorkerStep
    \/ SetAcquire
    \/ GetAcquire(1)
    \/ GetReturn(1)
    \/ ReaderDone(1)

SpecWorker ==
    /\ InitWorkerLoop
    /\ [][NextWorker]_vars
    /\ WF_vars(WorkerStep)
    /\ SF_vars(SetAcquire)
    /\ WF_vars(GetReturn(1))

-----------------------------------------------------------------------------
(* report_config.py: the sliding window; report_data.py: chunks, cache files *)

\* current_time_window(): (now - DAYS * 24 * 3600, now).  The model's clock
\* ticks HISTORY_CHUNK times a day, so that 24 * 3600 seconds are
\* HISTORY_CHUNK ticks.
current_time_window(t) == [from |-> t - DAYS * HISTORY_CHUNK, till |-> t]

\* (t // HISTORY_CHUNK) * HISTORY_CHUNK
ChunkStartOf(t) == (t \div HISTORY_CHUNK) * HISTORY_CHUNK

\* range(first_chunk_start, last_chunk_start + 1, HISTORY_CHUNK)
RECURSIVE ChunkRange(_, _)
ChunkRange(first, last) ==
    IF first > last THEN << >>
    ELSE << first >> \o ChunkRange(first + HISTORY_CHUNK, last)

ChunkStarts(w) == ChunkRange(ChunkStartOf(w.from), ChunkStartOf(w.till))

\* _history_cache_file(itemid, chunk_start)
CacheFile(itemid, chunk_start) == << itemid, chunk_start >>

\* the history.get call of get_connection_history for one chunk:
\* time_from = chunk_start, time_till = chunk_start + HISTORY_CHUNK
FetchChunk(history, chunk_start) ==
    get_history(history, chunk_start, chunk_start + HISTORY_CHUNK)

\* a cleanup that removes every file of a chunk that starts before the window
CleanedCacheByStart(files, t) ==
    [f \in { g \in DOMAIN files : ~ (g[2] < current_time_window(t).from) }
        |-> files[f]]

\* cleanup_history_cache(): the files that stay
CleanedCache(files, t) ==
    LET min_keep_start == ChunkStartOf(current_time_window(t).from)
    IN  [f \in { g \in DOMAIN files : ~ (g[2] + HISTORY_CHUNK < min_keep_start) }
            |-> files[f]]

-----------------------------------------------------------------------------
(* report_data.py: parse_history_connections, the loop over one history *)

AggKey(ctype, host, local_ip, remote_host, rip, port) ==
    << ctype, host, local_ip, remote_host, rip, port >>

\* the position of key in agg (a dict keeps insertion order), 0 when absent
AggIndex(acc, key) ==
    IF \E i \in 1..Len(acc) : acc[i].key = key
    THEN CHOOSE i \in 1..Len(acc) : acc[i].key = key
    ELSE 0

\* the merge that overwrites latest_ts with the entry's clock
AggMergeOverwrite(acc, key, timestamp) ==
    LET a == IF AggIndex(acc, key) = 0
             THEN Append(acc, [key |-> key, count |-> 0, latest_ts |-> 0])
             ELSE acc
        i == AggIndex(a, key)
    IN  [a EXCEPT ![i] = [key |-> key, count |-> a[i].count + 1,
                          latest_ts |-> timestamp]]

\* if key not in agg: agg[key] = {"count": 0, "latest_ts": 0}
\* agg[key]["count"] += 1
\* if timestamp > agg[key]["latest_ts"]: agg[key]["latest_ts"] = timestamp
AggMerge(acc, key, timestamp) ==
    LET a == IF AggIndex(acc, key) = 0
             THEN Append(acc, [key |-> key, count |-> 0, latest_ts |-> 0])
             ELSE acc
        i == AggIndex(a, key)
    IN  [a EXCEPT ![i] = [key |-> key, count |-> a[i].count + 1,
                          latest_ts |-> IF timestamp > a[i].latest_ts
                                        THEN timestamp ELSE a[i].latest_ts]]

\* key = (ctype, host, local_ip, remote_host, rip, port) of one descriptor
ConnKey(c, ctype, host, ip_to_host) ==
    AggKey(ctype, host, c.localip, Get(ip_to_host, c.remoteip, c.remoteip),
           c.remoteip,
           IF ctype = "incoming" THEN c.localport ELSE c.remoteport)

\* for c in conn_list: ... (a list element that is no dict is skipped)
RECURSIVE AggConns(_, _, _, _, _, _, _)
AggConns(acc, conns, i, ctype, host, timestamp, ip_to_host) ==
    IF i > Len(conns) THEN acc
    ELSE IF ~ conns[i].isdict
         THEN AggConns(acc, conns, i + 1, ctype, host, timestamp, ip_to_host)
    ELSE AggConns(AggMerge(acc, ConnKey(conns[i], ctype, host, ip_to_host), timestamp),
                  conns, i + 1, ctype, host, timestamp, ip_to_host)

\* what "for c in conn_list" iterates: a dict was wrapped in a list, the
\* characters of a string are no dicts
ExportConns(cl) == IF cl.shape \in {"list", "dict"} THEN cl.conns ELSE << >>

\* the entry is outside [time_from, time_till]
OutsideWindow(entry, w) == entry.clock < w.from \/ entry.clock > w.till

\* json.loads raises json.JSONDecodeError
DecodeError(value) == value.kind = "notjson"

\* the entry makes parse_history_connections raise: data.get on a JSON value
\* that is no object (AttributeError), or "for c in" over a number (TypeError)
EntryRaises(entry, w) ==
    /\ ~ OutsideWindow(entry, w)
    /\ ~ DecodeError(entry.value)
    /\ \/ entry.value.kind = "nondict"
       \/ entry.value.inc.shape = "num"
       \/ entry.value.out.shape = "num"

\* one iteration of "for entry in history" that does not raise
AggEntry(acc, entry, host, ip_to_host, w) ==
    IF OutsideWindow(entry, w) \/ DecodeError(entry.value) THEN acc
    ELSE AggConns(AggConns(acc, ExportConns(entry.value.inc), 1, "incoming",
                           host, entry.clock, ip_to_host),
                  ExportConns(entry.value.out), 1, "outgoing", host,
                  entry.clock, ip_to_host)

\* for entry in history: ...  The result is the new agg, or raised = TRUE when
\* an entry raised and agg was lost with the frame.
RECURSIVE AggHistory(_, _, _, _, _, _)
AggHistory(acc, history, i, host, ip_to_host, w) ==
    IF i > Len(history) THEN [raised |-> FALSE, agg |-> acc]
    ELSE IF EntryRaises(history[i], w) THEN [raised |-> TRUE, agg |-> << >>]
    ELSE AggHistory(AggEntry(acc, history[i], host, ip_to_host, w), history,
                    i + 1, host, ip_to_host, w)

\* datetime.utcfromtimestamp(latest_ts).isoformat() + "Z"
IsoFormatZ(ts) == [utc |-> ts]

\* rows.append({...}) for one item of agg
Row(a) ==
    [type        |-> a.key[1],
     local_host  |-> a.key[2],
     local_ip    |-> a.key[3],
     remote_host |-> a.key[4],
     remote_ip   |-> a.key[5],
     port        |-> a.key[6],
     count       |-> a.count,
     timestamp   |-> IsoFormatZ(a.latest_ts)]

\* for key, v in agg.items(): rows.append(...)
Rows(acc) == [i \in 1..Len(acc) |-> Row(acc[i])]

-----------------------------------------------------------------------------
(* report_data.py: filter_internal, filter_public *)

INTERNAL_NETWORKS ==
    { Net(10, 0, 0, 0, 8), Net(192, 168, 0, 0, 16), Net(172, 16, 0, 0, 12) }

\* any(ip in net for net in INTERNAL_NETWORKS), for a parsed address
InInternal(ip) == \E net \in INTERNAL_NETWORKS : InNet(ip, net)

\* ipaddress.ip_address(ip).is_loopback: 127.0.0.0/8
IsLoopback(ip) == IpOctets(ip)[1] = 127

\* both ipaddress.ip_address calls of a filter succeed
RowParses(r) == IpValid(r.local_ip) /\ IpValid(r.remote_ip)

\* filter_internal without its test of the remote address
filter_internal_local_only(rs) ==
    SelectSeq(rs, LAMBDA r : /\ RowParses(r)
                             /\ InInternal(r.local_ip))

filter_internal(rs) ==
    SelectSeq(rs, LAMBDA r : /\ RowParses(r)
                             /\ InInternal(r.local_ip)
                             /\ InInternal(r.remote_ip))

\* filter_public without its test of the remote address
filter_public_no_net_test(rs) ==
    SelectSeq(rs, LAMBDA r : /\ RowParses(r)
                             /\ ~ (IsLoopback(r.local_ip) \/ IsLoopback(r.remote_ip)))

filter_public(rs) ==
    SelectSeq(rs, LAMBDA r : /\ RowParses(r)
                             /\ ~ (IsLoopback(r.local_ip) \/ IsLoopback(r.remote_ip))
                             /\ ~ InInternal(r.remote_ip))

-----------------------------------------------------------------------------
(* report_data.py: get_all_hosts_ip_map *)

\* for h in hosts: for iface in interfaces: ip_to_host[ip] = name
RECURSIVE IpToHostIfaces(_, _, _, _)
IpToHostIfaces(name, ifaces, i, m) ==
    IF i > Len(ifaces) THEN m
    ELSE IpToHostIfaces(name, ifaces, i + 1,
                        IF ifaces[i] # "" THEN Put(m, ifaces[i], name) ELSE m)

RECURSIVE IpToHostHosts(_, _, _)
IpToHostHosts(hosts, i, m) ==
    IF i > Len(hosts) THEN m
    ELSE IpToHostHosts(hosts, i + 1,
                       IpToHostIfaces(hosts[i].host, hosts[i].interfaces, 1, m))

\* get_netbox_name_for_ip(ip) against the NetBox IPAM records ipam
\* (ip -> [vm, dns], "" for a missing name): the VM name, else the DNS name,
\* else None ("")
get_netbox_name_for_ip(ip, ipam) ==
    IF ip = "" \/ ip \notin DOMAIN ipam THEN ""
    ELSE IF ipam[ip].vm # "" THEN ipam[ip].vm
    ELSE ipam[ip].dns

\* get_all_hosts_ip_map(): hosts whose name is their address are looked up in
\* NetBox
get_all_hosts_ip_map(hosts, ipam) ==
    LET m == IpToHostHosts(hosts, 1, EmptyDict)
    IN  [ip \in DOMAIN m |->
            IF m[ip] = ip /\ get_netbox_name_for_ip(ip, ipam) # ""
            THEN get_netbox_name_for_ip(ip, ipam) ELSE m[ip]]

\* the IPAM records of NetBox
NetboxIpam ==
    (Db1Ip :> [vm |-> "db1.vm", dns |-> "db1.example.se"])
    @@ ("192.168.1.9" :> [vm |-> "files.vm", dns |-> "files.example.se"])
    @@ ("172.16.0.7" :> [vm |-> "", dns |-> "nas.example.se"])

-----------------------------------------------------------------------------
(* report_builders.py: write_gephi_csv.  The file is the sequence of its    *)
(* lines after the header line.                                             *)

\* w.writerow([src, sip, dst, dip, port, count]) with local -> remote for
\* every row
GephiLineLocalFirst(r) ==
    << r.local_host, r.local_ip, r.remote_host, r.remote_ip, r.port, r.count >>

\* w.writerow([src, sip, dst, dip, r.get("port", ""), r.get("count", 0)])
GephiLine(r) ==
    IF r.type = "outgoing"
    THEN << r.local_host, r.local_ip, r.remote_host, r.remote_ip, r.port, r.count >>
    ELSE << r.remote_host, r.remote_ip, r.local_host, r.local_ip, r.port, r.count >>

\* for r in rows: if not r["local_host"] or not r["remote_host"]: continue
write_gephi_csv(rs) ==
    LET kept == SelectSeq(rs, LAMBDA r : r.local_host # "" /\ r.remote_host # "")
    IN  [i \in 1..Len(kept) |-> GephiLine(kept[i])]

-----------------------------------------------------------------------------
(* report_builders.py: build_host_ip_map, build_drawio_per_host.  The       *)
(* document is the sequence of its diagram pages; a page holds its vertex   *)
(* cells and its edge cells in the order they are written.  The geometry of *)
(* a vertex cell is the position separate_overlaps leaves for it.           *)

EXCLUDED_HOSTS == { "Zabbix server" }

\* the elements of seq in the order of their first occurrence (the keys of a
\* dict, the nodes of a graph)
RECURSIVE OrderedUnique(_)
OrderedUnique(seq) ==
    IF seq = << >> THEN << >>
    ELSE LET front == OrderedUnique(SubSeq(seq, 1, Len(seq) - 1))
             x     == seq[Len(seq)]
         IN  IF x \in Range(front) THEN front ELSE Append(front, x)

PositionOf(seq, x) == CHOOSE i \in 1..Len(seq) : seq[i] = x

\* build_host_ip_map(rows).get(n, []): a set here, sorted in the program
HostIps(rs, n) ==
    IF n = "" THEN {}
    ELSE { rs[i].local_ip : i \in { k \in 1..Len(rs) :
               rs[k].local_host = n /\ rs[k].local_ip # "" /\ rs[k].local_ip # n } }
         \cup
         { rs[i].remote_ip : i \in { k \in 1..Len(rs) :
               rs[k].remote_host = n /\ rs[k].remote_ip # "" /\ rs[k].remote_ip # n } }

\* per_rows.keys()
LocalHosts(rs) == OrderedUnique([i \in 1..Len(rs) |-> rs[i].local_host])

\* the rows of host that reach G.add_edge
DrawnRecs(rs, host) ==
    SelectSeq(rs, LAMBDA r : r.local_host = host /\ r.remote_host \notin EXCLUDED_HOSTS)

RowSrc(r) == IF r.type = "outgoing" THEN r.local_host ELSE r.remote_host
RowDst(r) == IF r.type = "outgoing" THEN r.remote_host ELSE r.local_host

\* f"{type} (port={port})" if port else type
EdgeLabel(r) == IF r.port # 0 THEN << r.type, r.port >> ELSE << r.type >>

\* G.nodes(): src and dst of every row, in the order they were added
RECURSIVE EndpointsInOrder(_)
EndpointsInOrder(recs) ==
    IF recs = << >> THEN << >>
    ELSE << RowSrc(Head(recs)), RowDst(Head(recs)) >> \o EndpointsInOrder(Tail(recs))

GraphNodes(recs) == OrderedUnique(EndpointsInOrder(recs))

\* G.edges(data=True): one edge per (src, dst), with the label of the last
\* row that added it
GraphEdges(recs) ==
    LET pairs == OrderedUnique([i \in 1..Len(recs) |-> << RowSrc(recs[i]), RowDst(recs[i]) >>])
        last(pr) == CHOOSE i \in 1..Len(recs) :
                       /\ << RowSrc(recs[i]), RowDst(recs[i]) >> = pr
                       /\ \A j \in (i + 1)..Len(recs) :
                            << RowSrc(recs[j]), RowDst(recs[j]) >> # pr
    IN  [k \in 1..Len(pairs) |->
            [source |-> pairs[k][1], target |-> pairs[k][2],
             label |-> EdgeLabel(recs[last(pairs[k])])]]

\* the diagram element of one host: id_map[n] is << "node", idx >>
DiagramPage(rs, host) ==
    LET recs == DrawnRecs(rs, host)
        ns   == GraphNodes(recs)
        es   == GraphEdges(recs)
    IN  [name  |-> host,
         nodes |-> [i \in 1..Len(ns) |->
                      [id |-> << "node", i >>, value |-> << ns[i], HostIps(rs, ns[i]) >>]],
         edges |-> [k \in 1..Len(es) |->
                      [id     |-> << "edge", k >>,
                       value  |-> es[k].label,
                       source |-> << "node", PositionOf(ns, es[k].source) >>,
                       target |-> << "node", PositionOf(ns, es[k].target) >>]]]

\* PagedHosts without the test of G.number_of_nodes()
PagedHostsAnyGraph(rs) ==
    SelectSeq(LocalHosts(rs), LAMBDA h : h \notin EXCLUDED_HOSTS)

\* the hosts that get a page: not excluded, and G.number_of_nodes() > 0
PagedHosts(rs) ==
    SelectSeq(LocalHosts(rs),
              LAMBDA h : h \notin EXCLUDED_HOSTS /\ GraphNodes(DrawnRecs(rs, h)) # << >>)

\* the mxfile element build_drawio_per_host(rows, suffix) writes
build_drawio_per_host(rs) ==
    [k \in 1..Len(PagedHosts(rs)) |-> DiagramPage(rs, PagedHosts(rs)[k])]

-----------------------------------------------------------------------------
(* workers.py: report_worker; report_generator.py: generate_all_reports;  *)
(* report_data.py: parse_history_connections and get_connection_history,   *)
(* step by step.  A call that raises takes the worker to "failed", the     *)
(* except clause of report_worker.                                          *)

exportFrame == << ip_map, win, eitems, chunks, all_entries, agg, rows,
                  internal_rows, public_rows >>

\* the locals of generate_all_reports and its callees are gone
NoExportLocals ==
    /\ ip_map' = EmptyDict
    /\ win' = [from |-> 0, till |-> 0]
    /\ eitems' = << >>
    /\ chunks' = << >>
    /\ all_entries' = << >>
    /\ agg' = << >>
    /\ rows' = << >>
    /\ internal_rows' = << >>
    /\ public_rows' = << >>

\* an exception leaves generate_all_reports
ExportRaise(what) ==
    /\ export_error' = what
    /\ epc' = "failed"
    /\ NoExportLocals
    /\ UNCHANGED << envVars, liveVars, layoutVars, runs, cache_files, artifacts, drawio, gephi, chunk_log >>

\* generate_all_reports(): cleanup_history_cache()
ExportStart ==
    /\ epc = "start"
    /\ runs < MaxRuns
    /\ runs' = runs + 1
    /\ cache_files' = CleanedCache(cache_files, now)
    /\ artifacts' = {}
    /\ drawio' = EmptyDict
    /\ gephi' = EmptyDict
    /\ chunk_log' = EmptyDict
    /\ export_error' = ""
    /\ epc' = "ip_map"
    /\ UNCHANGED << envVars, liveVars, layoutVars, exportFrame >>

\* ip_map = get_all_hosts_ip_map()
ExportIpMap ==
    /\ epc = "ip_map"
    /\ ip_map' = get_all_hosts_ip_map(zbx_hosts, NetboxIpam)
    /\ epc' = "items"
    /\ UNCHANGED << envVars, liveVars, layoutVars, runs, cache_files, win, eitems, chunks,
                    all_entries, agg, rows, internal_rows, public_rows,
                    artifacts, drawio, gephi, chunk_log, export_error >>

\* host.get (or the NetBox lookup) raises inside get_all_hosts_ip_map()
ExportIpMapFails ==
    /\ epc = "ip_map"
    /\ ExportRaise("inventory")

\* items = get_network_connection_items(); rows = parse_history_connections(...):
\* time_from, time_till = current_time_window(); agg = {}
ExportItems ==
    /\ epc = "items"
    /\ eitems' = ZabbixItems
    /\ win' = current_time_window(now)
    /\ agg' = << >>
    /\ epc' = "item"
    /\ UNCHANGED << envVars, liveVars, layoutVars, runs, cache_files, ip_map, chunks,
                    all_entries, rows, internal_rows, public_rows, artifacts, drawio, gephi,
                    chunk_log, export_error >>

\* item.get raises
ExportItemsFails ==
    /\ epc = "items"
    /\ ExportRaise("items")

\* for itm in items: history = get_connection_history(itemid) begins:
\* all_entries = []; the chunk starts of the current window
ItemStart ==
    /\ epc = "item"
    /\ eitems # << >>
    /\ all_entries' = << >>
    /\ chunks' = ChunkStarts(current_time_window(now))
    /\ epc' = "chunk"
    /\ UNCHANGED << envVars, liveVars, layoutVars, runs, cache_files, ip_map, win, eitems,
                    agg, rows, internal_rows, public_rows, artifacts, drawio, gephi,
                    chunk_log, export_error >>

CurrentFile == CacheFile(Head(eitems).itemid, Head(chunks))

\* the history calls and cache writes that have failed in this run
Faults == Cardinality({ f \in DOMAIN chunk_log : chunk_log[f] \in {"failed", "unsaved"} })

\* the cache file of the chunk exists: all_entries.extend(json.load(f))
ChunkCached ==
    /\ epc = "chunk"
    /\ chunks # << >>
    /\ CurrentFile \in DOMAIN cache_files
    /\ all_entries' = all_entries \o cache_files[CurrentFile]
    /\ chunks' = Tail(chunks)
    /\ chunk_log' = Put(chunk_log, CurrentFile, "cached")
    /\ UNCHANGED << envVars, liveVars, layoutVars, epc, runs, cache_files, ip_map, win,
                    eitems, agg, rows, internal_rows, public_rows, artifacts, drawio, gephi,
                    export_error >>

\* history.get of the chunk raises; the exception is raised to the caller
ChunkFetchFailsRaising ==
    /\ epc = "chunk"
    /\ chunks # << >>
    /\ CurrentFile \notin DOMAIN cache_files
    /\ Faults < MaxFaults
    /\ export_error' = "history"
    /\ epc' = "failed"
    /\ chunk_log' = Put(chunk_log, CurrentFile, "failed")
    /\ NoExportLocals
    /\ UNCHANGED << envVars, liveVars, layoutVars, runs, cache_files, artifacts, drawio, gephi >>

\* history.get of the chunk raises: except Exception: print(...); continue
ChunkFetchFails ==
    /\ epc = "chunk"
    /\ chunks # << >>
    /\ CurrentFile \notin DOMAIN cache_files
    /\ Faults < MaxFaults
    /\ chunks' = Tail(chunks)
    /\ chunk_log' = Put(chunk_log, CurrentFile, "failed")
    /\ UNCHANGED << envVars, liveVars, layoutVars, epc, runs, cache_files, ip_map, win,
                    eitems, all_entries, agg, rows, internal_rows, public_rows,
                    artifacts, drawio, gephi, export_error >>

\* history.get of the chunk answers: all_entries.extend(chunk), and the chunk
\* is written to its cache file unless the write raises (caught and printed)
ChunkFetched ==
    /\ epc = "chunk"
    /\ chunks # << >>
    /\ CurrentFile \notin DOMAIN cache_files
    /\ LET chunk == FetchChunk(zbx_history[Head(eitems).itemid], Head(chunks))
       IN  /\ all_entries' = all_entries \o chunk
           /\ \E written \in { b \in BOOLEAN : b \/ Faults < MaxFaults } :
                /\ cache_files' = IF written THEN Put(cache_files, CurrentFile, chunk)
                                  ELSE cache_files
                /\ chunk_log' = Put(chunk_log, CurrentFile,
                                    IF written THEN "fetched" ELSE "unsaved")
    /\ chunks' = Tail(chunks)
    /\ UNCHANGED << envVars, liveVars, layoutVars, epc, runs, ip_map, win, eitems, agg,
                    rows, internal_rows, public_rows, artifacts, drawio, gephi, export_error >>

\* get_connection_history has returned: for entry in history: ...
ItemParse ==
    /\ epc = "chunk"
    /\ chunks = << >>
    /\ LET r == AggHistory(agg, all_entries, 1, Head(eitems).host, ip_map, win)
       IN  /\ ~ r.raised
           /\ agg' = r.agg
    /\ eitems' = Tail(eitems)
    /\ all_entries' = << >>
    /\ epc' = "item"
    /\ UNCHANGED << envVars, liveVars, layoutVars, runs, cache_files, ip_map, win, chunks,
                    rows, internal_rows, public_rows, artifacts, drawio, gephi, chunk_log,
                    export_error >>

\* an entry of the history makes the loop raise
ItemParseRaises ==
    /\ epc = "chunk"
    /\ chunks = << >>
    /\ AggHistory(agg, all_entries, 1, Head(eitems).host, ip_map, win).raised
    /\ ExportRaise("parse")

\* the item loop is over: rows = [...]; return rows
ParseReturn ==
    /\ epc = "item"
    /\ eitems = << >>
    /\ rows' = Rows(agg)
    /\ agg' = << >>
    /\ epc' = "write_all"
    /\ UNCHANGED << envVars, liveVars, layoutVars, runs, cache_files, ip_map, win, eitems,
                    chunks, all_entries, internal_rows, public_rows, artifacts, drawio, gephi,
                    chunk_log, export_error >>

\* the four files one filter variant writes
Artifacts(suffix) ==
    { << "summary", suffix >>, << "per_host", suffix >>, << "gephi", suffix >>,
      << "drawio", suffix >> }

\* write_summary_excel(rows, ""), ..., build_drawio_per_host(rows, "")
WriteAll ==
    /\ epc = "write_all"
    /\ artifacts' = artifacts \cup Artifacts("")
    /\ gephi' = Put(gephi, "", write_gephi_csv(rows))
    /\ drawio' = Put(drawio, "", build_drawio_per_host(rows))
    /\ epc' = "write_internal"
    /\ UNCHANGED << envVars, liveVars, layoutVars, runs, cache_files, exportFrame,
                    chunk_log, export_error >>

\* internal_rows = filter_internal(rows) and its four files
WriteInternal ==
    /\ epc = "write_internal"
    /\ internal_rows' = filter_internal(rows)
    /\ artifacts' = artifacts \cup Artifacts("_internal_ip")
    /\ gephi' = Put(gephi, "_internal_ip", write_gephi_csv(filter_internal(rows)))
    /\ drawio' = Put(drawio, "_internal_ip", build_drawio_per_host(filter_internal(rows)))
    /\ epc' = "write_public"
    /\ UNCHANGED << envVars, liveVars, layoutVars, runs, cache_files, ip_map, win, eitems,
                    chunks, all_entries, agg, rows, public_rows, chunk_log,
                    export_error >>

\* public_rows = filter_public(rows) and its four files
WritePublic ==
    /\ epc = "write_public"
    /\ public_rows' = filter_public(rows)
    /\ artifacts' = artifacts \cup Artifacts("_public_ip")
    /\ gephi' = Put(gephi, "_public_ip", write_gephi_csv(filter_public(rows)))
    /\ drawio' = Put(drawio, "_public_ip", build_drawio_per_host(filter_public(rows)))
    /\ epc' = "done"
    /\ UNCHANGED << envVars, liveVars, layoutVars, runs, cache_files, ip_map, win, eitems,
                    chunks, all_entries, agg, rows, internal_rows, chunk_log,
                    export_error >>

ArrivalPayloads == { Payload(ConnList(<< >>), ConnList(<< OutDb >>)) }

\* what Zabbix may have stored for an item while the report worker slept
\* from time t to time t2: nothing, or one value stamped t2
Arrivals(history, t2) ==
    { history } \cup { Append(history, Entry(t2, p)) : p \in ArrivalPayloads }

\* generate_all_reports returned, or report_worker's except clause logged the
\* exception; the worker sleeps until its next run, and Zabbix keeps collecting
ExportSleep ==
    /\ epc \in {"done", "failed"}
    /\ runs < MaxRuns
    /\ \E d \in 1..HISTORY_CHUNK :
         /\ now' = now + d
         /\ \E h \in Arrivals(zbx_history["i1"], now + d) :
              zbx_history' = [zbx_history EXCEPT !["i1"] = h]
    /\ epc' = "start"
    /\ NoExportLocals
    /\ UNCHANGED << zbx_hosts, netbox_vms, name_to_vm, liveVars, layoutVars, runs,
                    cache_files, artifacts, drawio, gephi, chunk_log, export_error >>

-----------------------------------------------------------------------------
(* SpecExport: the report worker running generate_all_reports against a    *)
(* Zabbix whose history calls may fail, with the chunk cache on disk        *)

ExportNow == Epoch + 1

\* clocks of the stored values: the first chunk start, the start of the
\* window, the last chunk start and the end of the window
ExportClocks ==
    LET w == current_time_window(ExportNow)
    IN  { ChunkStartOf(w.from), w.from, ChunkStartOf(w.till), w.till }

ExportPayloads ==
    { Payload(ConnList(<< >>), ConnList(<< OutDb >>)),
      Payload(ConnOne(InFromWeb), ConnList(<< OutDb, OutDb, NonDictConn >>)),
      NotJson,
      NonDictJson }

\* Zabbix returns history sorted by clock
SortedByClock(h) == \A i \in 1..Len(h) - 1 : h[i].clock <= h[i + 1].clock

Histories(payloads, n) ==
    { h \in SeqsUpTo({ Entry(c, p) : c \in ExportClocks, p \in payloads }, n) :
        SortedByClock(h) }

\* what db1's item holds
Db1Histories ==
    { << >>,
      << Entry(ExportNow, Payload(ConnList(<< InFromWeb >>), ConnStr)) >> }

InitExportEnv ==
    /\ zbx_hosts = Inventory
    /\ netbox_vms = NetboxVms
    /\ now = ExportNow
    /\ name_to_vm = EmptyDict
    /\ InitState
    /\ InitWorker

\* what web1's item holds in an export run: at most one stored value, which
\* is a record or the one value that is no record
Web1Histories ==
    Histories({ Payload(ConnList(<< >>), ConnList(<< OutDb >>)) }, 1)
        \cup { << Entry(ExportNow, NonDictJson) >> }

\* CACHE_DIR when the process starts: empty, or with the file an earlier
\* process left for a chunk that ended more than a chunk before the first
\* chunk of the window
LeftoverCaches ==
    LET first_chunk_start == ChunkStartOf(current_time_window(ExportNow).from)
    IN  { EmptyDict,
          CacheFile("i1", first_chunk_start - 2 * HISTORY_CHUNK) :> << >> }

InitExport ==
    /\ InitExportEnv
    /\ InitExportFrame
    /\ cache_files \in LeftoverCaches
    /\ zbx_history \in
         { ("i1" :> h1) @@ ("i2" :> h2) :
             h1 \in Web1Histories, h2 \in Db1Histories \ { << >> } }

GenerateAllReports ==
    \/ ExportStart
    \/ ExportIpMap
    \/ ExportIpMapFails
    \/ ExportItems
    \/ ExportItemsFails
    \/ ItemStart
    \/ ChunkCached
    \/ ChunkFetched
    \/ ChunkFetchFails
    \/ ItemParse
    \/ ItemParseRaises
    \/ ParseReturn
    \/ WriteAll
    \/ WriteInternal
    \/ WritePublic

NextExport ==
    \/ GenerateAllReports
    \/ ExportSleep

SpecExport == InitExport /\ [][NextExport]_vars

-----------------------------------------------------------------------------
(* SpecStart: the threads of start_workers *)

\* start_workers(): the Zabbix and NetBox worker threads run side by side
\* from the start of the process, with one reader of the cache.  The report
\* worker shares no variable of state.py with them and is left to SpecExport.
NextStart ==
    \/ NextWorker
    \/ NetboxWorker

SpecStart == InitWorkerLoop /\ [][NextStart]_vars

-----------------------------------------------------------------------------
(* SpecParse: parse_history_connections on every history of the bounds,    *)
(* Zabbix answering every call                                              *)

InitParse ==
    /\ InitExportEnv
    /\ InitExportIdle
    /\ zbx_history \in
         { ("i1" :> h1) @@ ("i2" :> h2) :
             h1 \in Histories(ExportPayloads, MaxHistory), h2 \in Db1Histories }

NextParse ==
    \/ ExportStart
    \/ ExportIpMap
    \/ ExportItems
    \/ ItemStart
    \/ ChunkFetched
    \/ ItemParse
    \/ ItemParseRaises
    \/ ParseReturn

SpecParse == InitParse /\ [][NextParse]_vars

-----------------------------------------------------------------------------
(* SpecResolve: parse_history_connections naming the remote address of a   *)
(* connection, for inventories with hosts that are named by their address   *)

\* hosts Zabbix knows by their address only
AddressHosts ==
    << Host("192.168.1.9", << "192.168.1.9" >>),
       Host("172.16.0.7", << "172.16.0.7" >>),
       Host("172.32.0.7", << "172.32.0.7" >>) >>

\* the hosts at the positions S of hosts, in their order
RECURSIVE HostList(_, _, _)
HostList(hosts, S, i) ==
    IF i > Len(hosts) THEN << >>
    ELSE (IF i \in S THEN << hosts[i] >> ELSE << >>) \o HostList(hosts, S, i + 1)

ResolveInventories ==
    { Inventory \o HostList(AddressHosts, S, 1) : S \in SUBSET (1..Len(AddressHosts)) }

ResolveRemotes == { Db1Ip, "192.168.1.9", "172.16.0.7", "172.32.0.7", "8.8.8.8" }

InitResolve ==
    /\ netbox_vms = NetboxVms
    /\ now = ExportNow
    /\ name_to_vm = EmptyDict
    /\ InitState
    /\ InitWorker
    /\ InitExportIdle
    /\ zbx_hosts \in ResolveInventories
    /\ \E rip \in ResolveRemotes :
         zbx_history =
           ("i1" :> << Entry(ExportNow,
                             Payload(ConnList(<< >>),
                                     ConnList(<< Conn(Web1Ip, rip, 0, 443) >>))) >>)
           @@ ("i2" :> << >>)

NextResolve ==
    \/ ExportStart
    \/ ExportIpMap
    \/ ExportItems
    \/ ItemStart
    \/ ChunkFetched
    \/ ItemParse
    \/ ParseReturn

SpecResolve == InitResolve /\ [][NextResolve]_vars

-----------------------------------------------------------------------------
(* SpecFilter: filter_internal and filter_public on every row set of the   *)
(* bounds                                                                   *)

FilterIps ==
    { "10.0.0.1", "192.168.1.9", "172.16.0.7", "172.32.0.7", "127.0.0.1",
      "8.8.8.8", "db1", "" }

FilterRows ==
    { Row([key |-> AggKey("outgoing", "web1", lip, rip, rip, 443),
           count |-> 1, latest_ts |-> Epoch]) :
        lip \in FilterIps, rip \in FilterIps }

InitFilter ==
    /\ InitExportEnv
    /\ zbx_history = [i \in ItemIds |-> << >>]
    /\ epc = "write_all"
    /\ runs = 1
    /\ cache_files = EmptyDict
    /\ ip_map = EmptyDict
    /\ win = current_time_window(ExportNow)
    /\ eitems = << >>
    /\ chunks = << >>
    /\ all_entries = << >>
    /\ agg = << >>
    /\ rows \in SeqsUpTo(FilterRows, MaxRows)
    /\ internal_rows = << >>
    /\ public_rows = << >>
    /\ artifacts = {}
    /\ chunk_log = EmptyDict
    /\ export_error = ""
    /\ drawio = EmptyDict
    /\ gephi = EmptyDict
    /\ InitLayoutIdle

NextFilter ==
    \/ WriteAll
    \/ WriteInternal
    \/ WritePublic

SpecFilter == InitFilter /\ [][NextFilter]_vars

-----------------------------------------------------------------------------
(* SpecDrawio: the writers of generate_all_reports on every row set of the  *)
(* bounds, with excluded hosts on either side of a row                      *)

DrawioAddress ==
    ("web1" :> Web1Ip) @@ ("db1" :> Db1Ip) @@ ("Zabbix server" :> "192.168.1.9")
    @@ ("8.8.8.8" :> "8.8.8.8")

DrawioRows ==
    { Row([key |-> AggKey(t, lh, DrawioAddress[lh], rh, DrawioAddress[rh], p),
           count |-> 1, latest_ts |-> Epoch]) :
        t \in {"incoming", "outgoing"},
        lh \in {"web1", "db1", "Zabbix server"},
        rh \in {"web1", "db1", "Zabbix server", "8.8.8.8"},
        p \in {0, 443} }

InitDrawio ==
    /\ InitExportEnv
    /\ zbx_history = [i \in ItemIds |-> << >>]
    /\ epc = "write_all"
    /\ runs = 1
    /\ cache_files = EmptyDict
    /\ ip_map = EmptyDict
    /\ win = current_time_window(ExportNow)
    /\ eitems = << >>
    /\ chunks = << >>
    /\ all_entries = << >>
    /\ agg = << >>
    \* the keys of agg are distinct, so the rows are
    /\ rows \in { rs \in SeqsUpTo(DrawioRows, MaxRows) :
                    \A i, j \in 1..Len(rs) : rs[i] = rs[j] => i = j }
    /\ internal_rows = << >>
    /\ public_rows = << >>
    /\ artifacts = {}
    /\ chunk_log = EmptyDict
    /\ export_error = ""
    /\ drawio = EmptyDict
    /\ gephi = EmptyDict
    /\ InitLayoutIdle

NextDrawio ==
    \/ WriteAll
    \/ WriteInternal
    \/ WritePublic

SpecDrawio == InitDrawio /\ [][NextDrawio]_vars

-----------------------------------------------------------------------------
(* SpecOrient: build_network_map and one export run reading the same stored *)
(* telemetry, every call answered                                           *)

\* 8.8.8.8 -> web1:443, seen from web1
InFromPublic == Conn(Web1Ip, "8.8.8.8", 443, 50000)

Web1Orient ==
    { Payload(ConnList(<< InFromPublic >>), ConnList(<< OutDb, NoRemote >>)),
      Payload(ConnList(<< >>), ConnOne(OutPublic)) }

Db1Orient == { Payload(ConnOne(InFromWeb), ConnList(<< >>)) }

InitOrient ==
    /\ zbx_hosts = Inventory
    /\ netbox_vms = NetboxVms
    /\ now = ExportNow
    /\ name_to_vm = EmptyDict
    /\ zbx_history \in
         { ("i1" :> h1) @@ ("i2" :> h2) :
             h1 \in SeqsUpTo({ Entry(ExportNow, p) : p \in Web1Orient }, 1),
             h2 \in SeqsUpTo({ Entry(ExportNow, p) : p \in Db1Orient }, 1) }
    /\ InitState
    /\ InitWorker
    /\ InitExportIdle

NextOrient ==
    \/ BuildStart
    \/ GetIpMaps
    \/ GetNameToVm
    \/ GetNetworkItems
    \/ ProcessItem
    \/ BuildReturn
    \/ ExportStart
    \/ ExportIpMap
    \/ ExportItems
    \/ ItemStart
    \/ ChunkFetched
    \/ ItemParse
    \/ ParseReturn
    \/ WriteAll
    \/ WriteInternal
    \/ WritePublic

SpecOrient == InitOrient /\ [][NextOrient]_vars

-----------------------------------------------------------------------------
(* SpecLayout: separate_overlaps(node_positions) with the default footprint *)
(* on every placement of up to four nodes on the points of LayoutPoints     *)

\* coincident, overlapping, touching and separate placements
LayoutPoints ==
    { << 0, 0 >>, << 100, 40 >>, << 160, 80 >>, << 161, 0 >>, << 0, 120 >>,
      << 200, 120 >> }

\* a placement whose x coordinate uses the low bits of the mantissa, as the
\* coordinates spring_layout yields do: (100 + 1/32, 40)
FinePoints == { << Scaled(100) + PositionScale \div 32, Scaled(40) >> }

LayoutInputs ==
    UNION { [Range(SubSeq(LayoutNames, 1, n)) ->
                { << Scaled(pt[1]), Scaled(pt[2]) >> : pt \in LayoutPoints }
                    \cup FinePoints] :
            n \in 0..Len(LayoutNames) }

InitLayout ==
    /\ zbx_hosts = Inventory
    /\ netbox_vms = NetboxVms
    /\ now = ExportNow
    /\ name_to_vm = EmptyDict
    /\ zbx_history = [i \in ItemIds |-> << >>]
    /\ InitState
    /\ InitWorker
    /\ epc = "start"
    /\ runs = 0
    /\ cache_files = EmptyDict
    /\ ip_map = EmptyDict
    /\ win = [from |-> 0, till |-> 0]
    /\ eitems = << >>
    /\ chunks = << >>
    /\ all_entries = << >>
    /\ agg = << >>
    /\ rows = << >>
    /\ internal_rows = << >>
    /\ public_rows = << >>
    /\ artifacts = {}
    /\ chunk_log = EmptyDict
    /\ export_error = ""
    /\ drawio = EmptyDict
    /\ gephi = EmptyDict
    /\ node_positions \in LayoutInputs
    /\ lnodes = SubSeq(LayoutNames, 1, Cardinality(DOMAIN node_positions))
    /\ start_positions = node_positions
    /\ lpc = "pass"
    /\ iteration = 1
    /\ moved = FALSE
    /\ li = 1
    /\ lj = 2
    /\ last_pair = << >>

NextLayout ==
    \/ PairOverlaps
    \/ PairApart
    \/ PassBreak
    \/ PassNext
    \/ PassesExhausted

SpecLayout == InitLayout /\ [][NextLayout]_vars

\* the call runs on: the statement that comes next is executed
SpecLayoutRun == SpecLayout /\ WF_vars(NextLayout)

-----
(* Properties of the graphs build_network_map returns (SpecBuild) *)

NodeIds(g)   == { n.id : n \in g.nodes }
Endpoints(g) == { e.source : e \in g.edges } \cup { e.target : e \in g.edges }

\* C8: in every graph build_network_map returns, the set of node ids equals
\* the union of the sources and targets of its edges.
C8_NodeEdgeClosure ==
    \A g \in returned : NodeIds(g) = Endpoints(g)

\* a returned graph with an edge between two different hosts and a public node
C8_Witness ==
    \E g \in returned :
        /\ \E e \in g.edges : e.source # e.target
        /\ Cardinality(g.nodes) >= 3

EdgesTouching(g, id) == { e \in g.edges : e.source = id \/ e.target = id }
EdgesFrom(g, id)     == { e \in g.edges : e.source = id }
EdgesTo(g, id)       == { e \in g.edges : e.target = id }

\* C9 as stated: the degree of every node equals the number of edges whose
\* source or target it is, self-loops included.
C9_DegreeCountsEdges ==
    \A g \in returned : \A n \in g.nodes :
        n.degree = Cardinality(EdgesTouching(g, n.id))

\* C9 amended: the degree of every node equals the number of edge endpoints at
\* the node: the edges leaving it plus the edges entering it, so that an edge
\* from a host to itself counts twice.
C9_DegreeCountsEndpoints ==
    \A g \in returned : \A n \in g.nodes :
        n.degree = Cardinality(EdgesFrom(g, n.id)) + Cardinality(EdgesTo(g, n.id))

\* a returned graph with a self-loop at a node that has another edge too
C9_Witness ==
    \E g \in returned : \E n \in g.nodes :
        /\ \E e \in g.edges : e.source = n.id /\ e.target = n.id
        /\ \E e \in g.edges : e.source = n.id /\ e.target # n.id
        /\ n.degree >= 3

-----------------------------------------------------------------------------
(* Properties of the cache under concurrent refresh and queries (SpecCache) *)

\* the maps a completed build produced and a completed set_cached_map installed
Snapshots == {InitialMap} \cup (installed \cap returned)

\* C1: whatever get_cached_map returns is the initial empty map or a map that
\* build_network_map returned and a completed set_cached_map installed; no
\* reader gets a graph under construction or one being installed.
C1_ReadersSeeCompleteMaps ==
    \A r \in Readers : rpc[r] = "returned" => rret[r] \in Snapshots

\* a reader holds an installed graph while the next refresh is halfway
\* through its item loop with edges already collected
C1_Witness ==
    \E r \in Readers :
        /\ rpc[r] = "returned"
        /\ rret[r] # InitialMap
        /\ zpc = "loop"
        /\ Len(items) = 1
        /\ edges_set # {}

\* the refresh in progress, or the last one, has failed
RefreshHasFailed == zpc = "failed" \/ (zpc = "sleep" /\ failures # {})

\* C2: when a refresh fails the cached map is the one that was cached when the
\* refresh started, the failed refresh does not hold the lock readers need,
\* and readers keep getting installed snapshots.
C2_FailedRefreshKeepsMap ==
    RefreshHasFailed =>
        /\ cached_map = snapshot
        /\ cached_map \in Snapshots
        /\ cached_map_lock # "zabbix"
        /\ \A r \in Readers : rpc[r] = "returned" => rret[r] \in Snapshots

\* a refresh failed after an earlier one had installed a graph, and a reader
\* has been served that graph
C2_Witness ==
    /\ zpc = "sleep"
    /\ failures # {}
    /\ cached_map # InitialMap
    /\ \E r \in Readers : rpc[r] = "returned" /\ rret[r] = cached_map

\* C3 as stated: a refresh is aborted only by a failure to obtain the
\* inventory; a failed history fetch of one item does not abort it.
C3_OnlyInventoryAborts ==
    zpc = "failed" => failures \cap {"inventory", "items"} # {}

-----------------------------------------------------------------------------
(* Properties of parse_history_connections (SpecParse)                      *)

\* the history of the current item has been returned and is about to be
\* processed
HistoryReturned == epc = "chunk" /\ chunks = << >>

\* the loop over "history" run on the entries h in place of all_entries
ParseOf(h) == AggHistory(agg, h, 1, Head(eitems).host, ip_map, win)

\* agg as a set of (key, count, latest_ts)
AggSet(acc) == Range(acc)

\* every arrangement of the elements at the positions S of h
RECURSIVE Arrangements(_, _)
Arrangements(h, S) ==
    IF S = {} THEN { << >> }
    ELSE UNION { { << h[i] >> \o t : t \in Arrangements(h, S \ {i}) } : i \in S }

Orders(h) == Arrangements(h, 1..Len(h))

\* every key of a is a key of b, with a count and a latest_ts that are not
\* smaller
NothingEarlier(a, b) ==
    \A i \in 1..Len(a) : \E j \in 1..Len(b) :
        /\ b[j].key = a[i].key
        /\ b[j].count >= a[i].count
        /\ b[j].latest_ts >= a[i].latest_ts

\* C4: whatever the order in which the entries of a history are processed,
\* every aggregation key ends with the same count and the same latest
\* timestamp, and processing one more entry never lowers the latest
\* timestamp of a key.
C4_MergeOrderIndependent ==
    HistoryReturned =>
        \A p \in Orders(all_entries) :
            /\ ParseOf(p).raised = ParseOf(all_entries).raised
            /\ AggSet(ParseOf(p).agg) = AggSet(ParseOf(all_entries).agg)
            /\ ~ ParseOf(p).raised =>
                 \A j \in 0..(Len(p) - 1) :
                     NothingEarlier(ParseOf(SubSeq(p, 1, j)).agg,
                                    ParseOf(SubSeq(p, 1, j + 1)).agg)

\* the entry is processed and holds the descriptor c among its outgoing
\* connections
HoldsOutgoing(entry, c) ==
    /\ ~ OutsideWindow(entry, win)
    /\ entry.value.kind = "dict"
    /\ c \in Range(ExportConns(entry.value.out))

\* two entries with different clocks that share a key are about to be merged
C4_Witness ==
    /\ HistoryReturned
    /\ ~ ParseOf(all_entries).raised
    /\ \E i, j \in 1..Len(all_entries) :
         /\ all_entries[i].clock < all_entries[j].clock
         /\ HoldsOutgoing(all_entries[i], OutDb)
         /\ HoldsOutgoing(all_entries[j], OutDb)

\* the connection lists of an entry as "for c in conn_list" sees them
ObsConns(entry, ctype) ==
    ExportConns(IF ctype = "incoming" THEN entry.value.inc ELSE entry.value.out)

StoredHistory(it) == zbx_history[ZabbixItems[it].itemid]

\* the observations Zabbix stores for the window: (item, entry position,
\* direction, descriptor position) of every descriptor that is a record, in
\* an entry of the window whose payload is a record
StoredObs ==
    { o \in UNION { UNION { UNION {
            { << it, e, ctype, c >> :
                c \in 1..Len(ObsConns(StoredHistory(it)[e], ctype)) } :
            ctype \in {"incoming", "outgoing"} } :
            e \in 1..Len(StoredHistory(it)) } :
            it \in 1..Len(ZabbixItems) } :
        LET entry == StoredHistory(o[1])[o[2]]
        IN  /\ ~ OutsideWindow(entry, win)
            /\ entry.value.kind = "dict"
            /\ ObsConns(entry, o[3])[o[4]].isdict }

ObsKey(o) ==
    ConnKey(ObsConns(StoredHistory(o[1])[o[2]], o[3])[o[4]], o[3],
            ZabbixItems[o[1]].host, ip_map)

ObsClock(o) == StoredHistory(o[1])[o[2]].clock

SetMax(S) == CHOOSE x \in S : \A y \in S : y <= x

\* one row per key of the stored observations: their number and their
\* latest clock
ExpectedRows ==
    { Row([key       |-> k,
           count     |-> Cardinality({ o \in StoredObs : ObsKey(o) = k }),
           latest_ts |-> SetMax({ ObsClock(o) : o \in { x \in StoredObs : ObsKey(x) = k } })]) :
        k \in { ObsKey(o) : o \in StoredObs } }

\* C5: the rows parse_history_connections returns are one row per key of the
\* descriptors Zabbix stores in entries of the window, with the number of
\* these descriptors as count and their latest clock as timestamp.
C5_RowsCountStoredDescriptors ==
    epc = "write_all" =>
        /\ Range(rows) = ExpectedRows
        /\ Len(rows) = Cardinality(ExpectedRows)

\* C6: parse_history_connections never raises because of an entry's payload.
C6_BadPayloadNeverRaises == export_error # "parse"

-----------------------------------------------------------------------------
(* Properties of an export run whose history calls may fail (SpecExport)   *)

\* what the chunk starting at chunk_start gave to the history of itemid in
\* this run: nothing when its history.get failed
Contribution(itemid, chunk_start) ==
    LET f == CacheFile(itemid, chunk_start)
    IN  IF chunk_log[f] = "failed" THEN << >>
        ELSE IF chunk_log[f] \in {"fetched", "unsaved"}
             THEN FetchChunk(zbx_history[itemid], chunk_start)
        ELSE cache_files[f]

RECURSIVE Contributions(_, _)
Contributions(itemid, starts) ==
    IF starts = << >> THEN << >>
    ELSE Contribution(itemid, Head(starts)) \o Contributions(itemid, Tail(starts))

\* agg after the items its[i..] were processed on what their chunks gave
RECURSIVE AggOfChunks(_, _, _)
AggOfChunks(acc, its, i) ==
    IF i > Len(its) THEN acc
    ELSE AggOfChunks(AggHistory(acc,
                                Contributions(its[i].itemid, ChunkStarts(win)),
                                1, its[i].host, ip_map, win).agg,
                     its, i + 1)

AllArtifacts ==
    Artifacts("") \cup Artifacts("_internal_ip") \cup Artifacts("_public_ip")

FailedChunks == { f \in DOMAIN chunk_log : chunk_log[f] = "failed" }

\* C7: a history call that fails for a chunk is no exception of the run; the
\* history of the item is what its other chunks gave, the rows are the
\* aggregation of what the chunks that did not fail gave for all items, and a
\* run that ends has written every artifact.
C7_FailedFetchIsSkipped ==
    /\ export_error # "history"
    /\ HistoryReturned =>
         all_entries = Contributions(Head(eitems).itemid, ChunkStarts(win))
    /\ epc \in {"write_all", "write_internal", "write_public", "done"} =>
         rows = Rows(AggOfChunks(<< >>, ZabbixItems, 1))
    /\ epc = "done" => artifacts = AllArtifacts

\* a run has ended with a chunk of web1 that failed, rows from the chunks that
\* did not fail, rows of db1, and every artifact
C7_Witness ==
    /\ epc = "done"
    /\ \E f \in FailedChunks : f[1] = "i1"
    /\ \E i, j \in 1..Len(rows) :
         rows[i].local_host = "web1" /\ rows[j].local_host = "db1"
    /\ artifacts = AllArtifacts

-----------------------------------------------------------------------------
(* Properties of the filters (SpecFilter)                                   *)

\* C10: the rows filter_internal keeps and the rows filter_public keeps of
\* the same rows have nothing in common, and all of them are rows of the
\* input.
C10_FiltersDisjoint ==
    epc = "done" =>
        /\ Range(internal_rows) \cap Range(public_rows) = {}
        /\ Range(internal_rows) \subseteq Range(rows)
        /\ Range(public_rows) \subseteq Range(rows)

\* both filters kept a row
C10_Witness ==
    /\ epc = "done"
    /\ internal_rows # << >>
    /\ public_rows # << >>

\* the private ranges written out: 10.x.x.x, 192.168.x.x, 172.16.x.x to
\* 172.31.x.x
InPrivateRanges(ip) ==
    LET o == IpOctets(ip)
    IN  \/ o[1] = 10
        \/ o[1] = 192 /\ o[2] = 168
        \/ o[1] = 172 /\ o[2] \in 16..31

KeptInternal(r) ==
    /\ IpValid(r.local_ip)
    /\ IpValid(r.remote_ip)
    /\ InPrivateRanges(r.local_ip)
    /\ InPrivateRanges(r.remote_ip)

KeptPublic(r) ==
    /\ IpValid(r.local_ip)
    /\ IpValid(r.remote_ip)
    /\ IpOctets(r.local_ip)[1] # 127
    /\ IpOctets(r.remote_ip)[1] # 127
    /\ ~ InPrivateRanges(r.remote_ip)

\* C11: filter_internal keeps a row exactly when both addresses parse and
\* both lie in the private ranges; filter_public keeps a row exactly when
\* both parse, neither is loopback and the remote one lies outside the
\* private ranges; a row with an address that does not parse is kept by
\* neither.
C11_FilterPredicates ==
    epc = "done" =>
        \A i \in 1..Len(rows) :
            /\ rows[i] \in Range(internal_rows) <=> KeptInternal(rows[i])
            /\ rows[i] \in Range(public_rows) <=> KeptPublic(rows[i])
            /\ ~ RowParses(rows[i]) =>
                 rows[i] \notin Range(internal_rows) \cup Range(public_rows)

\* the filters ran on a row of two private addresses and on a row with an
\* address that does not parse
C11_Witness ==
    /\ epc = "done"
    /\ \E i, j \in 1..Len(rows) :
         /\ KeptInternal(rows[i])
         /\ rows[i] \in Range(internal_rows)
         /\ ~ RowParses(rows[j])

-----------------------------------------------------------------------------
(* Properties of the node and edge attributes of returned graphs           *)
(* (SpecBuild)                                                              *)

\* C12: a node whose id is an address outside the private ranges (the remote
\* address of a connection that no inventory name was found for) has the
\* external colour.
C12_UnmappedPublicIsExternal ==
    \A g \in returned : \A n \in g.nodes :
        is_public_ip(n.id) => n.color = ENV_COLOR_MAP["external"]

\* no role or tag string of the node holds an environment keyword
NoEnvKeyword(id) ==
    \A t \in Range(Get(name_to_vm, id, << >>)) : KeywordsIn(t) = {}

\* C13: a node that has not the external colour and whose tags hold no
\* environment keyword has the colour of internal-unknown.
C13_DefaultIsInternalUnknown ==
    \A g \in returned : \A n \in g.nodes :
        (n.color # ENV_COLOR_MAP["external"] /\ NoEnvKeyword(n.id))
            => n.color = ENV_COLOR_MAP["internal-unknown"]

\* the port the edge of a descriptor is to carry: the local port of an
\* incoming connection, the remote port of an outgoing one
DirectionPort(c, direction) ==
    IF direction = "in" THEN c.localport ELSE c.remoteport

\* the (direction, descriptor) pairs of the window that build_network_map
\* turns into edges
LiveDescriptors ==
    UNION { UNION { { << "in", c >> : c \in LiveKept(e.value.inc) }
                    \cup { << "out", c >> : c \in LiveKept(e.value.out) } :
                    e \in { x \in Range(get_history(zbx_history[i], now - LiveWindow, now)) :
                              LiveParsed(x.value) } } :
            i \in ItemIds }

\* C14: every edge of a returned graph carries the local port of an incoming
\* connection between its endpoints or the remote port of an outgoing one.
C14_EdgePortByDirection ==
    \A g \in returned : \A e \in g.edges :
        \E d \in LiveDescriptors : \E netboxOk \in BOOLEAN :
            LET i2h == get_ip_maps(zbx_hosts, netbox_vms, netboxOk).ip2host
            IN  /\ e.source = LiveSrc(d[2], d[1], i2h)
                /\ e.target = LiveDst(d[2], d[1], i2h)
                /\ e.label = DirectionPort(d[2], d[1])

-----------------------------------------------------------------------------
(* Properties of the names in exported rows (SpecResolve)                   *)

\* the inventory hosts with the interface ip whose name is not the address
FriendlyNames(ip) ==
    { h.host : h \in { x \in Range(zbx_hosts) : ip \in Range(x.interfaces) /\ x.host # ip } }

\* the name of an address: the inventory name, else the VM of the CMDB record
\* of the address, else its DNS name, else the address
ResolvedName(ip) ==
    IF FriendlyNames(ip) # {} THEN CHOOSE n \in FriendlyNames(ip) : TRUE
    ELSE IF ip \in DOMAIN NetboxIpam /\ NetboxIpam[ip].vm # "" THEN NetboxIpam[ip].vm
    ELSE IF ip \in DOMAIN NetboxIpam /\ NetboxIpam[ip].dns # "" THEN NetboxIpam[ip].dns
    ELSE ip

\* C15: the remote host of every exported row is the inventory name of the
\* remote address, else the VM name of its CMDB record, else the DNS name of
\* that record, else the address.
C15_RemoteHostResolved ==
    epc = "write_all" =>
        \A i \in 1..Len(rows) : rows[i].remote_host = ResolvedName(rows[i].remote_ip)

-----------------------------------------------------------------------------
(* Properties of separate_overlaps (SpecLayout)                             *)

\* the boxes (node_width by node_height) at the positions p1 and p2 share no
\* point
BoxesApart(p1, p2) ==
    \/ Abs(p2[1] - p1[1]) > Scaled(node_width)
    \/ Abs(p2[2] - p1[2]) > Scaled(node_height)

\* separate_overlaps was called with exactly two nodes at the same point
TwoCoincident ==
    /\ Len(lnodes) = 2
    /\ start_positions[lnodes[1]] = start_positions[lnodes[2]]

\* C16: when separate_overlaps returns from a call with exactly two nodes at
\* identical coordinates, the boxes of the two nodes do not overlap.
C16_CoincidentPairSeparated ==
    (lpc = "returned" /\ TwoCoincident) =>
        BoxesApart(node_positions[lnodes[1]], node_positions[lnodes[2]])

\* separate_overlaps has returned from such a call, after a pass that moved
\* the pair and a pass that found nothing to move
C16_Witness ==
    /\ lpc = "returned"
    /\ TwoCoincident
    /\ node_positions # start_positions
    /\ ~ moved

-----------------------------------------------------------------------------
(* Properties of build_drawio_per_host (SpecDrawio)                         *)

\* the rows build_drawio_per_host was called with for the document of suffix
DrawioInput(suffix) ==
    IF suffix = "_internal_ip" THEN filter_internal(rows)
    ELSE IF suffix = "_public_ip" THEN filter_public(rows)
    ELSE rows

\* the local hosts of rs that are not excluded and keep a row whose remote
\* host is not excluded
HostsWithEdges(rs) ==
    { rs[i].local_host : i \in { k \in 1..Len(rs) :
          /\ rs[k].local_host \notin EXCLUDED_HOSTS
          /\ rs[k].remote_host \notin EXCLUDED_HOSTS } }

VertexIds(page) == { page.nodes[i].id : i \in 1..Len(page.nodes) }

\* C17: every diagram document has one page per local host that is not
\* excluded and keeps at least one edge once rows with an excluded remote
\* host are dropped, and on every page the source and the target of each edge
\* cell are ids of vertex cells of that page.
C17_PagesAndEdgeEndpoints ==
    \A suffix \in DOMAIN drawio :
        /\ Len(drawio[suffix]) = Cardinality(HostsWithEdges(DrawioInput(suffix)))
        /\ \A k \in 1..Len(drawio[suffix]) :
             \A e \in 1..Len(drawio[suffix][k].edges) :
                /\ drawio[suffix][k].edges[e].source \in VertexIds(drawio[suffix][k])
                /\ drawio[suffix][k].edges[e].target \in VertexIds(drawio[suffix][k])

\* a document with one page and one edge was written from rows that hold a
\* host whose only row goes to an excluded host
C17_Witness ==
    /\ "" \in DOMAIN drawio
    /\ Len(drawio[""]) = 1
    /\ Len(drawio[""][1].edges) = 1
    /\ \E i \in 1..Len(rows) :
         /\ rows[i].local_host \notin EXCLUDED_HOSTS
         /\ rows[i].local_host \notin HostsWithEdges(rows)

-----------------------------------------------------------------------------
(* Properties of generate_all_reports as a whole (SpecExport)               *)

\* the run is over: generate_all_reports returned or raised
RunOver == runs > 0 /\ epc \in {"done", "failed"}

\* C18: data of a single host never aborts generate_all_reports: a run that
\* got the inventory and the items ends with the artifacts of every filter
\* variant written.
C18_HostDataNeverAborts ==
    (RunOver /\ export_error \notin {"inventory", "items"}) =>
        /\ epc = "done"
        /\ artifacts = AllArtifacts

-----------------------------------------------------------------------------
(* Properties of the edge orientation (SpecOrient)                          *)

\* the edge of a connection between the endpoint on the local side and the
\* endpoint on the remote side: remote -> local for an incoming connection,
\* local -> remote for an outgoing one
Oriented(incoming, localName, remoteName) ==
    IF incoming THEN << remoteName, localName >> ELSE << localName, remoteName >>

\* the rows of rs with a local and a remote host name
NamedRows(rs) == SelectSeq(rs, LAMBDA r : r.local_host # "" /\ r.remote_host # "")

\* C19: the edges of a returned graph are the live descriptors oriented
\* remote -> local when incoming and local -> remote when outgoing, and every
\* edge list written by write_gephi_csv holds, in the order of the rows, one
\* line with the same orientation for each row that has both host names and
\* no other line.
C19_SameOrientation ==
    /\ \A g \in returned : \E netboxOk \in BOOLEAN :
         LET i2h == get_ip_maps(zbx_hosts, netbox_vms, netboxOk).ip2host
         IN  { << e.source, e.target >> : e \in g.edges } =
             { Oriented(d[1] = "in", Get(i2h, d[2].localip, d[2].localip),
                        Get(i2h, d[2].remoteip, d[2].remoteip)) : d \in LiveDescriptors }
    /\ \A suffix \in DOMAIN gephi :
         LET named == NamedRows(DrawioInput(suffix))
         IN  /\ Len(gephi[suffix]) = Len(named)
             /\ \A i \in 1..Len(named) :
                  << gephi[suffix][i][1], gephi[suffix][i][3] >> =
                      Oriented(named[i].type = "incoming",
                               named[i].local_host, named[i].remote_host)

\* the graph and the edge list both hold the incoming connection from
\* 8.8.8.8 to web1, and a row without remote host name gave no line
C19_Witness ==
    /\ \E g \in returned : \E e \in g.edges : e.source = "8.8.8.8" /\ e.target = "web1"
    /\ "" \in DOMAIN gephi
    /\ \E i \in 1..Len(gephi[""]) : gephi[""][i][1] = "8.8.8.8" /\ gephi[""][i][3] = "web1"
    /\ \E i \in 1..Len(rows) : rows[i].remote_host = ""
    /\ Len(gephi[""]) < Len(rows)

-----------------------------------------------------------------------------
(* Properties of the zabbix_worker loop (SpecWorker)                         *)

\* the sleeps the worker has finished
SleepsDone == now - Epoch

\* C20: the worker starts its first refresh before any sleep and one refresh
\* after every sleep; a refresh that raised is followed by the next sleep and
\* the next attempt, as long as the bound on refreshes allows one; and a
\* graph that build_network_map returned becomes the cached map.
C20_WorkerKeepsRefreshing ==
    /\ [](refreshes = IF zpc = "start" THEN SleepsDone ELSE SleepsDone + 1)
    /\ (zpc = "failed") ~> (zpc = "sleep")
    /\ (zpc = "sleep" /\ refreshes < MaxRefresh) ~> (zpc = "get_ip_maps")
    /\ (zpc = "set_cached_map") ~> (zpc = "sleep" /\ cached_map = new_map)

\* a refresh failed, and the refresh after the next sleep installed its graph
C20_Witness ==
    /\ zpc = "sleep"
    /\ refreshes = 2
    /\ snapshot = InitialMap
    /\ cached_map # InitialMap
    /\ cached_map = new_map
    /\ last_updated = Epoch + 1

-----------------------------------------------------------------------------
(* Properties of the lock of the cached map (SpecCache)                     *)

\* build_network_map is running
Building == zpc \in {"get_ip_maps", "get_name_to_vm", "get_network_items", "loop"}

\* C21: the worker holds the lock only between the entry of set_cached_map's
\* with block and its end, never while build_network_map runs, and a reader
\* that returns from get_cached_map while build_network_map runs is given the
\* map that was cached when the refresh started.
C21_LockNotHeldWhileBuilding ==
    /\ [](cached_map_lock = "zabbix" <=> zpc \in {"set_map", "set_time"})
    /\ [](Building => cached_map_lock # "zabbix" /\ cached_map = snapshot)
    /\ [][\A r \in Readers :
            (Building /\ rpc[r] = "locked" /\ rpc'[r] = "returned") =>
                rret'[r] = snapshot]_vars

\* a reader is inside get_cached_map with the lock while the second refresh
\* waits for its items
C21_Witness ==
    /\ zpc = "get_network_items"
    /\ snapshot # InitialMap
    /\ \E r \in Readers : rpc[r] = "locked" /\ cached_map_lock = ReaderName(r)

-----------------------------------------------------------------------------
(* Properties of the passes of separate_overlaps (SpecLayoutRun)            *)

\* the pair the inner loops end a pass with
LastPairOfPass == << Len(lnodes) - 1, Len(lnodes) >>

\* C22: separate_overlaps returns from every call; it never begins more than
\* max_iterations passes, every pass ends with the last unordered pair, the
\* end of a pass in which no pair overlapped is the return, and so is the end
\* of pass max_iterations, with the positions as they are then.
C22_PassesBoundedAndReturn ==
    /\ <>(lpc = "returned")
    /\ [](iteration \in 1..MaxIterations)
    /\ []((PassOver /\ Len(lnodes) >= 2) =>
             /\ SubSeq(last_pair, 1, 2) = LastPairOfPass
             /\ (moved \/ ~ last_pair[3]))
    /\ [][(PassOver /\ (~ moved \/ iteration = MaxIterations)) =>
             (lpc' = "returned" /\ node_positions' = node_positions)]_vars
    /\ [][lpc' = "returned" => (PassOver /\ (~ moved \/ iteration = MaxIterations))]_vars

\* the last pass allowed has moved a pair; separate_overlaps has returned with
\* two boxes still overlapping
C22_Witness ==
    /\ lpc = "returned"
    /\ moved
    /\ iteration = MaxIterations
    /\ \E i, j \in 1..Len(lnodes) :
         /\ i < j
         /\ overlap(Box(node_positions[lnodes[i]]), Box(node_positions[lnodes[j]]))

-----------------------------------------------------------------------------
(* Properties of one pair step of separate_overlaps (SpecLayout)            *)

\* the positions of the pair that is processed next
P1 == node_positions[lnodes[li]]
P2 == node_positions[lnodes[lj]]

\* the pair that is processed next has overlapping boxes
PairMetOverlapping == PairsLeft /\ overlap(Box(P1), Box(P2))

\* the displacement of that pair along an axis is at least the footprint of
\* the axis, so that the push along it is zero
ZeroPushMet ==
    /\ PairMetOverlapping
    /\ \/ Abs(P2[1] - P1[1]) >= Scaled(node_width + padding)
       \/ Abs(P2[2] - P1[2]) >= Scaled(node_height + padding)

\* C23 as stated: separate_overlaps meets a pair whose boxes overlap while its
\* displacement along one axis is at least the footprint.  Read on the calls
\* of the inputs, each of which would meet one; C23_OverlapWithinFootprint
\* shows that no call does.
C23_ZeroPushIsMet == <>ZeroPushMet

\* C23, amended: a pair whose boxes overlap is never as far apart as the
\* footprint on either axis (boxes that overlap are about the node's width
\* apart in x and the node's height in y at most), so neither push is zero.
C23_OverlapWithinFootprint ==
    PairMetOverlapping =>
        /\ ~ ZeroPushMet
        /\ PushX(P1, P2) # 0
        /\ PushY(P1, P2) # 0

\* after an earlier pair of the pass, a pair is met whose boxes only touch at
\* a corner: the widest displacement of an overlapping pair on both axes
C23_Witness ==
    /\ PairMetOverlapping
    /\ last_pair # << >>
    /\ Abs(P2[1] - P1[1]) = Scaled(node_width)
    /\ Abs(P2[2] - P1[2]) = Scaled(node_height)

\* the step of the pair that was next has been taken
PairStepTaken == << li', lj' >> # << li, lj >>

Q1 == node_positions'[lnodes[li]]
Q2 == node_positions'[lnodes[lj]]

\* the distance the claim gives for the x coordinates after the step
ExpectedDx ==
    IF P1 = P2 THEN Scaled(node_width + padding - 1) ELSE Scaled(node_width + padding)

ExpectedDy == Scaled(node_height + padding)

Max(u, v) == IF u > v THEN u ELSE v

\* what four roundings (of d, of o and of the two new coordinates) can add up
\* to: each is at most half the spacing at the largest magnitude involved
Slack(u, v, footprint) == 2 * Spacing(Max(Max(Abs(u), Abs(v)), footprint))

\* C27 as stated: after the step of a pair whose boxes overlap both nodes
\* have moved, the boxes do not overlap, the x coordinates differ by exactly
\* width+padding (width+padding-1 for coincident positions) and the y
\* coordinates by exactly height+padding.
C27_PairPushedExactly ==
    [][(PairMetOverlapping /\ PairStepTaken) =>
          /\ Q1 # P1
          /\ Q2 # P2
          /\ ~ overlap(Box(Q1), Box(Q2))
          /\ Abs(Q2[1] - Q1[1]) = ExpectedDx
          /\ Abs(Q2[2] - Q1[2]) = ExpectedDy]_vars

\* C27, amended: after the step of a pair whose boxes overlap both nodes have
\* moved, the boxes do not overlap, and the coordinates differ by the
\* distances of the claim up to the rounding of the floating-point
\* operations of the step.
C27_PairPushedApart ==
    [][(PairMetOverlapping /\ PairStepTaken) =>
          /\ Q1 # P1
          /\ Q2 # P2
          /\ ~ overlap(Box(Q1), Box(Q2))
          /\ BoxesApart(Q1, Q2)
          /\ Abs(Abs(Q2[1] - Q1[1]) - ExpectedDx)
                <= Slack(Q1[1], Q2[1], Scaled(node_width + padding))
          /\ Abs(Abs(Q2[2] - Q1[2]) - ExpectedDy)
                <= Slack(Q1[2], Q2[2], Scaled(node_height + padding))]_vars

\* the pair processed last was pushed apart, and rounding has left its x
\* coordinates at a distance that is neither width+padding nor width+padding-1
C27_Witness ==
    /\ last_pair # << >>
    /\ last_pair[3]
    /\ Abs(node_positions[lnodes[last_pair[2]]][1] - node_positions[lnodes[last_pair[1]]][1])
          \notin { Scaled(node_width + padding), Scaled(node_width + padding - 1) }
    /\ ~ overlap(Box(node_positions[lnodes[last_pair[1]]]),
                 Box(node_positions[lnodes[last_pair[2]]]))


-----------------------------------------------------------------------------
(* Properties of the positions separate_overlaps returns (SpecLayout)       *)

\* the pairs (i, j) of the two loops over nodes
NodePairs == { ij \in (1..Len(lnodes)) \X (1..Len(lnodes)) : ij[1] < ij[2] }

\* no pair of the positions overlaps, as separate_overlaps tests it
NoOverlapIn(positions) ==
    \A ij \in NodePairs :
        ~ overlap(Box(positions[lnodes[ij[1]]]), Box(positions[lnodes[ij[2]]]))

\* the loop was left by "if not moved: break"
StoppedEarly == lpc = "returned" /\ ~ moved

\* C28: when separate_overlaps has left its loop by the break of a pass
\* without a move, no two boxes of the final positions overlap or touch; and
\* a call whose input positions hold no overlapping pair (zero or one node
\* included) never changes a position.
C28_EarlyStopMeansApart ==
    /\ StoppedEarly =>
           \A ij \in NodePairs :
               BoxesApart(node_positions[lnodes[ij[1]]],
                          node_positions[lnodes[ij[2]]])
    /\ NoOverlapIn(start_positions) => node_positions = start_positions

\* a call that moved nodes in its first pass and stopped after a second pass
\* that found every pair apart
C28_Witness ==
    /\ StoppedEarly
    /\ Len(lnodes) >= 2
    /\ node_positions # start_positions
    /\ ~ NoOverlapIn(start_positions)


-----------------------------------------------------------------------------
(* Properties of the chunk cache of get_connection_history (SpecExport)     *)

\* the history calls of the chunks starts, none answered from a cache file
RECURSIVE UncachedHistory(_, _)
UncachedHistory(history, starts) ==
    IF starts = << >> THEN << >>
    ELSE FetchChunk(history, Head(starts)) \o UncachedHistory(history, Tail(starts))

\* get_connection_history(itemid) is about to return all_entries
HistoryReturns == epc = "chunk" /\ chunks = << >>

\* no history call of the item failed in this run
NoFetchFailed ==
    \A c \in Range(ChunkStarts(win)) :
        Get(chunk_log, CacheFile(Head(eitems).itemid, c), "") # "failed"

\* C24: the entries get_connection_history returns for an item are, chunk by
\* chunk of the current window, the entries an uncached history call of the
\* chunk returns at that moment.
C24_CacheTransparent ==
    (HistoryReturns /\ NoFetchFailed) =>
        all_entries = UncachedHistory(zbx_history[Head(eitems).itemid],
                                      ChunkStarts(win))


\* the clock values a history call of the chunk starting at c asks for:
\* time_from = c and time_till = c + HISTORY_CHUNK, both inclusive
RequestRange(c) == c..(c + HISTORY_CHUNK)

\* how often the entry e occurs in the sequence es
Occurrences(es, e) == Cardinality({ k \in 1..Len(es) : es[k] = e })

\* C25: the time ranges of the chunk requests of one item are pairwise
\* disjoint, and get_connection_history returns no entry more often than the
\* source holds it.
C25_ChunkRangesDisjoint ==
    epc = "chunk" =>
        /\ \A c1, c2 \in Range(ChunkStarts(win)) :
               c1 # c2 => RequestRange(c1) \cap RequestRange(c2) = {}
        /\ chunks = << >> =>
               \A e \in Range(all_entries) :
                   Occurrences(all_entries, e)
                       <= Occurrences(zbx_history[Head(eitems).itemid], e)


\* the step handles one chunk of the loop of get_connection_history
ChunkStep == epc = "chunk" /\ chunks # << >> /\ chunks' = Tail(chunks)

\* the files a step removes from CACHE_DIR, and the ones it adds
RemovedFiles == DOMAIN cache_files \ DOMAIN cache_files'
WrittenFiles == DOMAIN cache_files' \ DOMAIN cache_files

\* C26: a chunk whose history call failed has no cache file, and a chunk
\* without a cache file is asked from the source; a chunk with a cache file
\* is taken from the file and not asked from the source; only the chunk a
\* history call answered is written; and the only files ever removed are
\* removed by cleanup_history_cache at the start of a run, each one the file
\* of a chunk that ends before the window of that run and that the run does
\* not read.
C26_FailedRefetchedCachedKept ==
    /\ [](\A f \in DOMAIN chunk_log :
             /\ chunk_log[f] = "failed" => f \notin DOMAIN cache_files
             /\ chunk_log[f] = "fetched" => f \in DOMAIN cache_files)
    /\ [][ChunkStep =>
             IF CurrentFile \in DOMAIN cache_files
             THEN /\ chunk_log'[CurrentFile] = "cached"
                  /\ cache_files' = cache_files
             ELSE chunk_log'[CurrentFile] \in {"fetched", "unsaved", "failed"}]_vars
    /\ [][\A f \in WrittenFiles : ChunkStep /\ f = CurrentFile
                                     /\ chunk_log'[f] = "fetched"]_vars
    /\ [][\A f \in RemovedFiles :
             /\ epc = "start"
             /\ f[2] + HISTORY_CHUNK < current_time_window(now).from
             /\ f[2] \notin Range(ChunkStarts(current_time_window(now)))]_vars

\* the second run: the current chunk of the first run is asked from the
\* source again for web1's item, whose file the first run did not write, and
\* taken from its file for db1's item
C26_Witness ==
    LET c == ChunkStartOf(ExportNow)
    IN  /\ runs = 2
        /\ Get(chunk_log, CacheFile("i1", c), "") = "fetched"
        /\ Get(chunk_log, CacheFile("i2", c), "") = "cached"
        /\ CacheFile("i1", ChunkStartOf(current_time_window(ExportNow).from)
                              - 2 * HISTORY_CHUNK) \notin DOMAIN cache_files


-----------------------------------------------------------------------------
(* Properties of the workers start_workers starts (SpecCache)               *)

\* the node of a graph is coloured by the tags NetBox holds for it
ClassifiedWith(tagsOf, n) ==
    n.color = NodeColor(n.ip, classify_env(TagNames(Get(tagsOf, n.id, << >>))))

\* C30: every node of every graph the Zabbix worker has installed in the
\* cache is classified with the tag map the NetBox worker loads, never with
\* the initial empty one.
C30_InstalledAfterNetbox ==
    \A g \in installed : \A n \in g.nodes : ClassifiedWith(NetboxTags, n)


\* the Zabbix worker is inside the with block of set_cached_map
InSetCachedMap == zpc \in {"set_map", "set_time"}

\* C29: _cached_map and _last_updated are assigned only inside the with block
\* of set_cached_map, with the lock held, and always both before the lock is
\* freed; last_updated is 0 exactly as long as no refresh has installed a map,
\* and the end of every successful refresh stamps it with the clock.  A failed
\* refresh, a reader and the NetBox worker change neither.
C29_MapAndStampTogether ==
    /\ [](last_updated = 0 <=> installed = {})
    /\ [](InSetCachedMap <=> cached_map_lock = "zabbix")
    /\ []((installed = {} /\ ~ InSetCachedMap) => cached_map = InitialMap)
    /\ [][(cached_map' # cached_map \/ last_updated' # last_updated) =>
             (InSetCachedMap /\ cached_map_lock = "zabbix")]_vars
    /\ [][(zpc = "set_map" /\ zpc' # zpc) =>
             (cached_map' = new_map /\ zpc' = "set_time")]_vars
    /\ [][(zpc = "set_time" /\ zpc' # zpc) =>
             (last_updated' = now /\ cached_map' = new_map /\ cached_map_lock' = "")]_vars

\* a refresh installed a graph and stamped it; the NetBox worker has loaded
\* its data, a reader has been served, and the next refresh has failed
C29_Witness ==
    /\ last_updated = Epoch
    /\ now > Epoch
    /\ cached_map # InitialMap
    /\ name_to_vm = NetboxTags
    /\ rpc[1] = "returned"
    /\ zpc = "sleep"
    /\ failures # {}

====
